---------------------------- MODULE Spec2Model ----------------------------
(***************************************************************************)
(* A model of the esldemo journey proxy (server/index.js) and of the       *)
(* navigation surface of its React client (client/src/App.jsx).            *)
(*                                                                         *)
(* Three state machines share the module:                                  *)
(*   - the backend handlers of one request at a time (init, load-step,     *)
(*     next, previous) with every await as a separate step: Spec, and      *)
(*     SpecActions, the load-step handler over the full product of         *)
(*     action-response shapes;                                             *)
(*   - the client's go / restartJourney with the in-flight guard:          *)
(*     SpecClient;                                                         *)
(*   - the POST /api/offers/available handler with its concurrently        *)
(*     issued detail fetches: SpecOffers.                                  *)
(*                                                                         *)
(* JavaScript values are records [kind, v]; JSON objects whose keys may    *)
(* be absent are TLA+ records whose DOMAIN varies.                         *)
(***************************************************************************)
EXTENDS Integers, Sequences, FiniteSets, TLC

(***************************************************************************)
(* Bounds of the model.                                                    *)
(***************************************************************************)
\* longest stepActions list of a step payload in Spec
MaxActions == 2
\* longest stepActions list of a step payload in SpecActions
MaxFoldActions == 2
\* number of client navigation triggers followed in SpecClient
MaxTriggers == 4
\* longest available-offers list in SpecOffers
MaxOffers == 3
\* longest field list of a live step in SpecOverrides
MaxLiveFields == 3
\* longest override list of a configured step in SpecOverrides
MaxOverrideFields == 2
\* longest list of step entries of a configuration document in SpecMatch
MaxStepEntries == 2
\* number of clicks and widget callbacks followed in SpecScreens
MaxClicks == 2
\* number of signals and clicks followed in SpecSignals
MaxSignals == 2

(***************************************************************************)
(* JavaScript values.                                                      *)
(***************************************************************************)
JsNull == [kind |-> "null", v |-> ""]
JsUndefined == [kind |-> "undefined", v |-> ""]
JsString(s) == [kind |-> "string", v |-> s]
JsObject(id) == [kind |-> "object", v |-> id]
JsArray(id) == [kind |-> "array", v |-> id]

\* an array-valued or non-array JSON value with its items
JsList(items) == [kind |-> "array", items |-> items]
JsNoList == [kind |-> "undefined", items |-> <<>>]
JsNullList == [kind |-> "null", items |-> <<>>]
JsObjectNotList == [kind |-> "object", items |-> <<>>]

\* {} : the object without keys
EmptyObject == [k \in {} |-> JsNull]

\* obj?.key : the value under key, or dflt when the key is absent
Get(obj, key, dflt) == IF key \in DOMAIN obj THEN obj[key] ELSE dflt

\* String.prototype.trim on the strings of the model
Trim(s) ==
  CASE s = " " -> ""
    [] s = "   " -> ""
    [] s = " https://sign.example/2 " -> "https://sign.example/2"
    [] s = " Offers-1 " -> "Offers-1"
    [] OTHER -> s

SeqsUpTo(S, n) == UNION {[1..k -> S] : k \in 0..n}

(***************************************************************************)
(* Step Override Resolver (server/index.js 428-620).                       *)
(*                                                                         *)
(* A live field is a record with key name and the optional keys isVisible  *)
(* (a boolean), ui (a record of hints), requiredLevel, value.  An override *)
(* entry of the configuration has key name and the optional keys orderIdx, *)
(* orderIndex (numbers as read from JSON: [kind, n]), isVisible            *)
(* ([kind, b]) and the ui hints ([kind, v]).                               *)
(***************************************************************************)
\* String.prototype.toLowerCase on the strings of the model
ToLowerCase(s) ==
  CASE s = "Offers-1" -> "offers-1"
    [] s = "OFFERS-1" -> "offers-1"
    [] s = "Persona-2" -> "persona-2"
    [] s = "DAO" -> "dao"
    [] s = "Action" -> "action"
    [] s = "SSN" -> "ssn"
    [] s = "Summary" -> "summary"
    [] s = "Order Summary" -> "order summary"
    [] OTHER -> s

normalizeStepKey(value) == ToLowerCase(Trim(value))

\* JSON numbers of the configuration and what Number() makes of them
JsNum(n) == [kind |-> "number", n |-> n]
JsNumericString(n) == [kind |-> "numericString", n |-> n]
JsTextNum == [kind |-> "string", n |-> 0]
JsUndefinedNum == [kind |-> "undefined", n |-> 0]
JsNullNum == [kind |-> "null", n |-> 0]

\* Number(x): [finite, n]; null converts to 0, undefined and text to NaN
ToNumber(x) ==
  CASE x.kind = "number" -> [finite |-> TRUE, n |-> x.n]
    [] x.kind = "numericString" -> [finite |-> TRUE, n |-> x.n]
    [] x.kind = "null" -> [finite |-> TRUE, n |-> 0]
    [] OTHER -> [finite |-> FALSE, n |-> 0]

\* Number.MAX_SAFE_INTEGER.  The orders of the model are an order-preserving
\* image of the doubles: 2^53 - 1 is drawn one below the largest integer of
\* the checker, so that a larger finite double (1e300, say) has an image too.
MAX_SAFE_INTEGER == 2147483646

\* an order that ignores the position of the entry
getFieldOrder_NoFallback(overrideField, fallbackIndex) ==
  LET numericOrder == ToNumber(Get(overrideField, "orderIdx", JsUndefinedNum))
      numericOrderIndex == ToNumber(Get(overrideField, "orderIndex", JsUndefinedNum))
  IN  IF numericOrder.finite THEN numericOrder.n
      ELSE IF numericOrderIndex.finite THEN numericOrderIndex.n
      ELSE 0

getFieldOrder(overrideField, fallbackIndex) ==
  LET numericOrder == ToNumber(Get(overrideField, "orderIdx", JsUndefinedNum))
      numericOrderIndex == ToNumber(Get(overrideField, "orderIndex", JsUndefinedNum))
  IN  IF numericOrder.finite THEN numericOrder.n
      ELSE IF numericOrderIndex.finite THEN numericOrderIndex.n
      ELSE fallbackIndex

StringHints == {"placeholder", "inputType", "mask", "defaultCountryCode"}
BooleanHints == {"phoneCountrySelect"}
ArrayHints == {"phoneCountries"}

\* the ui object built from one override entry (index.js 532-549)
OverrideUi(field) ==
  LET keys == {k \in StringHints : k \in DOMAIN field /\ field[k].kind = "string"}
              \cup {k \in BooleanHints : k \in DOMAIN field /\ field[k].kind = "boolean"}
              \cup {k \in ArrayHints : k \in DOMAIN field /\ field[k].kind = "array"}
  IN  [k \in keys |-> field[k]]

\* the descriptor stored in byFieldName for the override entry at 0-based index
OverrideDescriptor(field, index) ==
  LET vis == Get(field, "isVisible", [kind |-> "undefined", b |-> FALSE])
  IN  [order |-> getFieldOrder(field, index),
       hasVisibility |-> vis.kind = "boolean",
       isVisible |-> vis.b,
       ui |-> OverrideUi(field)]

\* byFieldName: the first entry of each non-empty name wins
ByFieldName(overrideFields) ==
  LET names == {overrideFields[i].name : i \in 1..Len(overrideFields)} \ {""}
      first(n) == CHOOSE i \in 1..Len(overrideFields) :
                    /\ overrideFields[i].name = n
                    /\ \A j \in 1..(i - 1) : overrideFields[j].name # n
  IN  [n \in names |-> OverrideDescriptor(overrideFields[first(n)], first(n) - 1)]

\* a merge that takes isVisible from the entry whatever its type
MergeField_AnyVisibility(field, override) ==
  LET withVis == [isVisible |-> override.isVisible] @@ field
      liveUi == Get(field, "ui", EmptyObject)
  IN  IF DOMAIN override.ui # {}
      THEN [ui |-> override.ui @@ liveUi] @@ withVis
      ELSE withVis

MergeField(field, override) ==
  LET withVis == IF override.hasVisibility
                 THEN [isVisible |-> override.isVisible] @@ field
                 ELSE field
      liveUi == Get(field, "ui", EmptyObject)
  IN  IF DOMAIN override.ui # {}
      THEN [ui |-> override.ui @@ liveUi] @@ withVis
      ELSE withVis

\* a comparator that breaks ties of order by index alone
SortsBefore_IndexTie(left, right) ==
  IF left.order # right.order THEN left.order < right.order
  ELSE left.index < right.index

\* the comparator of the sort (index.js 580-590): left strictly before right
SortsBefore(left, right) ==
  IF left.order # right.order THEN left.order < right.order
  ELSE IF left.hasOverride # right.hasOverride THEN left.hasOverride
  ELSE left.index < right.index

RECURSIVE InsertSorted(_, _)
InsertSorted(entry, sorted) ==
  IF sorted = <<>> THEN <<entry>>
  ELSE IF SortsBefore(entry, Head(sorted)) THEN <<entry>> \o sorted
  ELSE <<Head(sorted)>> \o InsertSorted(entry, Tail(sorted))

RECURSIVE SortEntries(_)
SortEntries(entries) ==
  IF entries = <<>> THEN <<>>
  ELSE InsertSorted(Head(entries), SortEntries(Tail(entries)))

IsShown(field) == Get(field, "isVisible", TRUE) # FALSE

\* a result that keeps the field list alone
applyFieldOverrides_FieldsOnly(step, stepOverride) ==
  LET sourceFields == Get(step, "fields", <<>>)
      overrideFields == Get(stepOverride, "fields", <<>>)
      byFieldName == ByFieldName(overrideFields)
      entry(i) ==
        LET field == sourceFields[i]
            fieldName == Get(field, "name", "")
            has == fieldName \in DOMAIN byFieldName
        IN  [field |-> IF has THEN MergeField(field, byFieldName[fieldName]) ELSE field,
             index |-> i - 1,
             hasOverride |-> has,
             order |-> IF has THEN byFieldName[fieldName].order ELSE MAX_SAFE_INTEGER]
      sorted == SortEntries([i \in 1..Len(sourceFields) |-> entry(i)])
      sortedFields == SelectSeq([i \in 1..Len(sorted) |-> sorted[i].field], IsShown)
  IN  IF Len(sourceFields) = 0 \/ Len(overrideFields) = 0 THEN step
      ELSE [fields |-> sortedFields, journeyStep |-> step.journeyStep]

applyFieldOverrides(step, stepOverride) ==
  LET sourceFields == Get(step, "fields", <<>>)
      overrideFields == Get(stepOverride, "fields", <<>>)
      byFieldName == ByFieldName(overrideFields)
      entry(i) ==
        LET field == sourceFields[i]
            fieldName == Get(field, "name", "")
            has == fieldName \in DOMAIN byFieldName
        IN  [field |-> IF has THEN MergeField(field, byFieldName[fieldName]) ELSE field,
             index |-> i - 1,
             hasOverride |-> has,
             order |-> IF has THEN byFieldName[fieldName].order ELSE MAX_SAFE_INTEGER]
      sorted == SortEntries([i \in 1..Len(sourceFields) |-> entry(i)])
      sortedFields == SelectSeq([i \in 1..Len(sorted) |-> sorted[i].field], IsShown)
  IN  IF Len(sourceFields) = 0 \/ Len(overrideFields) = 0 THEN step
      ELSE [fields |-> sortedFields] @@ step

\* the configuration document, or NoConfig when the file is absent or unreadable
NoConfig == [loaded |-> FALSE]
NoOverride == [found |-> FALSE]

\* every candidate step entry of every flow, in document order
RECURSIVE Candidates(_)
Candidates(flows) ==
  IF flows = <<>> THEN <<>>
  ELSE Get(Head(flows), "steps", <<>>) \o Candidates(Tail(flows))

findStepOverride(step, overridesConfig) ==
  LET cfgJourney == Get(overridesConfig, "journeyName", "")
      stepJourney == Get(step, "journeyName", "")
      stepKey == normalizeStepKey(Get(step, "journeyStep", ""))
      candidates == Candidates(Get(overridesConfig, "formDrivenFlows", <<>>))
      hits == {i \in 1..Len(candidates) :
                 normalizeStepKey(Get(candidates[i], "journeyStep", "")) = stepKey}
  IN  IF ~overridesConfig.loaded THEN NoOverride
      ELSE IF /\ cfgJourney # ""
              /\ stepJourney # ""
              /\ normalizeStepKey(cfgJourney) # normalizeStepKey(stepJourney)
           THEN NoOverride
      ELSE IF stepKey = "" \/ hits = {} THEN NoOverride
      ELSE [found |-> TRUE,
            entry |-> candidates[CHOOSE i \in hits : \A j \in hits : i <= j]]

applyStepOverrides(step, overridesConfig) ==
  LET stepOverride == findStepOverride(step, overridesConfig)
  IN  IF ~overridesConfig.loaded THEN step
      ELSE IF ~stepOverride.found THEN step
      ELSE applyFieldOverrides(step, stepOverride.entry)


(***************************************************************************)
(* Errors and response bodies.                                             *)
(*                                                                         *)
(* An error message is [text, list] (list: the keys a message enumerates). *)
(* A body is [kind, text, message]: kind "none" is a falsy body (null, "", *)
(* absent), "text" a non-empty string body, "object" a JSON object whose   *)
(* message member is message ("" when absent or empty).                    *)
(***************************************************************************)
Msg(text) == [text |-> text, list |-> <<>>]
MsgList(text, list) == [text |-> text, list |-> list]

NoBody == [kind |-> "none", text |-> Msg(""), message |-> ""]
TextBody(msg) == [kind |-> "text", text |-> msg, message |-> ""]
ObjectBody(message) == [kind |-> "object", text |-> Msg(""), message |-> message]

\* an axios error carrying the upstream response
UpstreamError(status, data) ==
  [hasResponse |-> TRUE, status |-> status, data |-> data,
   message |-> Msg("Request failed")]
\* an axios error without a response (connection refused, timeout)
NetworkError ==
  [hasResponse |-> FALSE, status |-> 0, data |-> NoBody,
   message |-> Msg("Network Error")]
\* throw new Error(text)
LocalError(msg) ==
  [hasResponse |-> FALSE, status |-> 0, data |-> NoBody, message |-> msg]

\* error.response?.data || error.message
ErrorDetails(error) ==
  IF error.hasResponse /\ error.data.kind # "none" THEN error.data
  ELSE TextBody(error.message)

(***************************************************************************)
(* Custom-Processor Orchestrator (server/index.js 349-426).                *)
(***************************************************************************)
EmptyEnrichment ==
  [availableOffers |-> <<>>, esignUrl |-> JsNull,
   personaResponse |-> JsNull, stripePaymentDetails |-> JsNull]

\* action?.type === "callCustomProcessor" && action?.id
Qualifies(action) ==
  Get(action, "type", "") = "callCustomProcessor" /\ Get(action, "id", "") # ""

\* the filtered list callCustomProcessorActions
CallCustomProcessorActions(step) ==
  LET declared == Get(step, "stepActions", JsNoList)
      stepActions == IF declared.kind = "array" THEN declared.items ELSE <<>>
  IN  SelectSeq(stepActions, Qualifies)

\* step?.externalId || step?.instanceId
StepExternalId(step) ==
  IF Get(step, "externalId", "") # "" THEN step.externalId
  ELSE Get(step, "instanceId", "")

\* typeof x === "string" && x.trim()
IsEsignUrl(x) == x.kind = "string" /\ Trim(x.v) # ""
\* typeof x === "object" alone: arrays pass
IsPlainObject_ArraysToo(x) == x.kind \in {"object", "array"}

\* x && typeof x === "object" && !Array.isArray(x)
IsPlainObject(x) == x.kind = "object"

\* a loop body that keeps the offers of the latest action only
FoldActionResult_ReplaceOffers(acc, actionResult) ==
  LET actionResponse == Get(actionResult, "actionResponse", <<>>)
      actionOffers == Get(actionResponse, "availableOffers", JsNoList)
      actionEsignUrl == Get(actionResponse, "esignUrl", JsUndefined)
      actionPersonaResponse == Get(actionResponse, "personaResponse", JsUndefined)
      actionStripePaymentDetails ==
        Get(actionResponse, "stripePaymentDetails", JsUndefined)
  IN  [availableOffers |->
         IF actionOffers.kind = "array" THEN actionOffers.items
         ELSE acc.availableOffers,
       esignUrl |->
         IF IsEsignUrl(actionEsignUrl) THEN actionEsignUrl ELSE acc.esignUrl,
       personaResponse |->
         IF IsPlainObject(actionPersonaResponse) THEN actionPersonaResponse
         ELSE acc.personaResponse,
       stripePaymentDetails |->
         IF IsPlainObject(actionStripePaymentDetails)
         THEN actionStripePaymentDetails
         ELSE acc.stripePaymentDetails]

\* one turn of the loop body after the call returned (index.js 395-422)
FoldActionResult(acc, actionResult) ==
  LET actionResponse == Get(actionResult, "actionResponse", <<>>)
      actionOffers == Get(actionResponse, "availableOffers", JsNoList)
      actionEsignUrl == Get(actionResponse, "esignUrl", JsUndefined)
      actionPersonaResponse == Get(actionResponse, "personaResponse", JsUndefined)
      actionStripePaymentDetails ==
        Get(actionResponse, "stripePaymentDetails", JsUndefined)
  IN  [availableOffers |->
         IF actionOffers.kind = "array"
         THEN acc.availableOffers \o actionOffers.items
         ELSE acc.availableOffers,
       esignUrl |->
         IF IsEsignUrl(actionEsignUrl) THEN actionEsignUrl ELSE acc.esignUrl,
       personaResponse |->
         IF IsPlainObject(actionPersonaResponse) THEN actionPersonaResponse
         ELSE acc.personaResponse,
       stripePaymentDetails |->
         IF IsPlainObject(actionStripePaymentDetails)
         THEN actionStripePaymentDetails
         ELSE acc.stripePaymentDetails]

\* a merge that leaves the step as loaded when nothing was collected
EnrichStep_SkipEmpty(stepWithOverrides, payload) ==
  IF payload = EmptyEnrichment THEN stepWithOverrides
  ELSE [availableOffers |-> payload.availableOffers,
        esignUrl |-> payload.esignUrl,
        personaResponse |-> payload.personaResponse,
        stripePaymentDetails |-> payload.stripePaymentDetails] @@ stepWithOverrides

\* {...stepWithOverrides, availableOffers, esignUrl, personaResponse,
\*  stripePaymentDetails} (index.js 636-642)
EnrichStep(stepWithOverrides, payload) ==
  [availableOffers |-> payload.availableOffers,
   esignUrl |-> payload.esignUrl,
   personaResponse |-> payload.personaResponse,
   stripePaymentDetails |-> payload.stripePaymentDetails] @@ stepWithOverrides

(***************************************************************************)
(* Retry policy of loadStepWithRetry (server/index.js 645-672).            *)
(***************************************************************************)
\* the default of the parameter attempts
attempts == 4
\* status === 404 alone
canRetry_StatusOnly(error) == error.hasResponse /\ error.status = 404

\* status === 404 && message, message = error.response?.data?.message || ""
canRetry(error) ==
  /\ error.hasResponse
  /\ error.status = 404
  /\ error.data.kind = "object"
  /\ error.data.message # ""


(***************************************************************************)
(* The backend: one request at a time, every await a step of its own.      *)
(*                                                                         *)
(* srv is the frame of the handler in progress:                            *)
(*   pc          which call the handler awaits ("idle": none yet, "done":  *)
(*               response sent, "sleep": the retry delay)                  *)
(*   req         the inbound request [kind, externalId, authorization]     *)
(*   token, metadata, start, nav, loadId   the handler's locals            *)
(*   attempt     loadStepWithRetry's loop counter (0 outside it)           *)
(*   step, actions, acc   runCallCustomProcessorActions' locals            *)
(*   outstanding the outbound call awaited                                 *)
(*   res         the response sent                                         *)
(* and, as history, callCount (calls issued per operation in this          *)
(* request), passCalls and responses (action calls issued and results      *)
(* received in the current pass), attemptLog (the error of every failed    *)
(* attempt of this request).                                               *)
(***************************************************************************)
VARIABLES config, overridesConfig, srv, cli, ofr

serverVars == <<config, overridesConfig, srv>>

Ops == {"token", "metadata", "start", "navigate", "loadStep", "action", "viewItem"}
Kinds == {"init", "load-step", "next", "previous"}

Absent == [absent |-> TRUE]
NoCall == [op |-> "none", token |-> "", target |-> "", actionId |-> ""]
NoRes == [status |-> 0]

IdleServer ==
  [pc |-> "idle",
   req |-> [kind |-> "init", externalId |-> "", authorization |-> ""],
   token |-> "", metadata |-> Absent, start |-> Absent, nav |-> Absent,
   loadId |-> "", attempt |-> 0,
   loaded |-> Absent,
   step |-> Absent, actions |-> <<>>, acc |-> EmptyEnrichment,
   outstanding |-> NoCall, res |-> NoRes,
   callCount |-> [op \in Ops |-> 0],
   passCalls |-> <<>>, responses |-> <<>>, attemptLog |-> <<>>]

\* the request's call to axios: it is awaited before anything else happens
Issue(s, op, target, actionId) ==
  [s EXCEPT !.pc = op,
            !.outstanding = [op |-> op, token |-> s.token, target |-> target,
                             actionId |-> actionId],
            !.callCount[op] = @ + 1]

\* res.status(status).json(body)
Respond(s, status, body) ==
  [s EXCEPT !.pc = "done", !.outstanding = NoCall,
            !.res = [status |-> status, body |-> body]]

FailureMessage(kind) ==
  CASE kind = "init" -> "Init journey failed"
    [] kind = "load-step" -> "Load step failed"
    [] kind = "next" -> "Next step failed"
    [] kind = "previous" -> "Previous step failed"
    [] kind = "view-item" -> "View item failed"

\* a catch block that answers the message alone
HandlerCatch_MessageOnly(s, error) ==
  Respond(s, 500, [message |-> FailureMessage(s.req.kind)])

\* the handler's catch block
HandlerCatch(s, error) ==
  Respond(s, 500, [message |-> FailureMessage(s.req.kind),
                   details |-> ErrorDetails(error)])

\* an init that echoes the identifier of its request
HandlerReturnsStep_RequestId(s, enriched) ==
  CASE s.req.kind = "init" ->
         Respond(s, 200, [externalId |-> s.req.externalId, metadata |-> s.metadata,
                          start |-> s.start, step |-> enriched])
    [] s.req.kind = "load-step" -> Respond(s, 200, enriched)
    [] OTHER ->
         Respond(s, 200, [externalId |-> s.loadId, step |-> enriched] @@ s.nav)

\* the handler after the resolved step came back (index.js 715, 741, 766, 798)
HandlerReturnsStep(s, enriched) ==
  CASE s.req.kind = "init" ->
         Respond(s, 200, [externalId |-> s.loadId, metadata |-> s.metadata,
                          start |-> s.start, step |-> enriched])
    [] s.req.kind = "load-step" -> Respond(s, 200, enriched)
    [] OTHER ->
         Respond(s, 200, [externalId |-> s.loadId, step |-> enriched] @@ s.nav)

\* a pass that takes up the action list where the failed pass left it
loadStepAndRunCustomProcessors_Resumes(s) ==
  Issue([s EXCEPT !.loaded = Absent, !.step = Absent, !.actions = <<>>],
        "loadStep", s.loadId, "")

\* loadStepAndRunCustomProcessors, first half: await loadStep(token, externalId)
loadStepAndRunCustomProcessors(s) ==
  Issue([s EXCEPT !.loaded = Absent, !.step = Absent, !.actions = <<>>, !.acc = EmptyEnrichment,
                  !.passCalls = <<>>, !.responses = <<>>],
        "loadStep", s.loadId, "")

\* a loop that runs one turn more
RetryCatch_OneMore(s, error) ==
  LET logged == [s EXCEPT !.attemptLog = Append(@, error), !.outstanding = NoCall]
  IN  IF ~canRetry(error) \/ s.attempt = attempts + 1
      THEN HandlerCatch(logged, error)
      ELSE [logged EXCEPT !.pc = "sleep"]

\* loadStepWithRetry: the catch block of one attempt and the throw after
\* the loop
RetryCatch(s, error) ==
  LET logged == [s EXCEPT !.attemptLog = Append(@, error), !.outstanding = NoCall]
  IN  IF ~canRetry(error) \/ s.attempt = attempts
      THEN HandlerCatch(logged, error)
      ELSE [logged EXCEPT !.pc = "sleep"]

\* every handler resolving its step through the retry loop
PassThrows_AlwaysRetry(s, error) == RetryCatch(s, error)

\* an error thrown inside loadStepAndRunCustomProcessors reaches the retry
\* loop in next and previous, the handler's catch in init and load-step
PassThrows(s, error) ==
  IF s.req.kind \in {"next", "previous"} THEN RetryCatch(s, error)
  ELSE HandlerCatch(s, error)

\* the pass returned its enriched step
PassReturns(s, payload) == HandlerReturnsStep(s, EnrichStep(s.step, payload))

\* the filtered list walked from its end
InvokeAction_Reversed(s, n) ==
  LET action == s.actions[Len(s.actions) - n + 1]
      call == Issue(s, "action", StepExternalId(s.step), action.id)
  IN  [call EXCEPT !.passCalls =
         Append(@, [actionId |-> action.id, externalId |-> StepExternalId(s.step)])]

\* the call of action number n of the filtered list
InvokeAction(s, n) ==
  LET action == s.actions[n]
      call == Issue(s, "action", StepExternalId(s.step), action.id)
  IN  [call EXCEPT !.passCalls =
         Append(@, [actionId |-> action.id, externalId |-> StepExternalId(s.step)])]

\* the identifier checked before the filtered list is looked at
runCallCustomProcessorActions_IdFirst(s) ==
  IF StepExternalId(s.step) = ""
  THEN PassThrows(s, LocalError(Msg(
         "Cannot call custom processors: missing externalId/instanceId in step payload")))
  ELSE IF Len(s.actions) = 0 THEN PassReturns(s, EmptyEnrichment)
  ELSE InvokeAction(s, 1)

\* the identifier never checked
runCallCustomProcessorActions_NoIdCheck(s) ==
  IF Len(s.actions) = 0 THEN PassReturns(s, EmptyEnrichment)
  ELSE InvokeAction(s, 1)

\* runCallCustomProcessorActions up to its first await (index.js 349-381)
runCallCustomProcessorActions(s) ==
  IF Len(s.actions) = 0 THEN PassReturns(s, EmptyEnrichment)
  ELSE IF StepExternalId(s.step) = ""
  THEN PassThrows(s, LocalError(Msg(
         "Cannot call custom processors: missing externalId/instanceId in step payload")))
  ELSE InvokeAction(s, 1)

\* loadStepAndRunCustomProcessors after loadStep returned (index.js 630-634)
StepLoaded(s, step, overrides) ==
  LET stepWithOverrides == applyStepOverrides(step, overrides)
  IN  runCallCustomProcessorActions(
        [s EXCEPT !.loaded = step,
                  !.step = stepWithOverrides,
                  !.actions = CallCustomProcessorActions(stepWithOverrides),
                  !.acc = EmptyEnrichment,
                  !.outstanding = NoCall])

\* the loop of runCallCustomProcessorActions after one action returned
ActionReturned(s, actionResult) ==
  LET folded == [s EXCEPT !.acc = FoldActionResult(@, actionResult),
                          !.responses = Append(@, actionResult),
                          !.outstanding = NoCall]
      n == Len(s.passCalls)
  IN  IF n < Len(s.actions) THEN InvokeAction(folded, n + 1)
      ELSE PassReturns(folded, folded.acc)


(***************************************************************************)
(* Environment validation and token resolution (server/index.js 53-208).   *)
(* config is the set of configuration keys that hold a value.              *)
(***************************************************************************)
commonRequired ==
  <<"baseUrl", "culture", "startEndpoint", "loadMetadataEndpoint",
    "loadStepEndpoint", "nextEndpoint", "previousEndpoint",
    "callStepActionEndpoint">>

CredentialKeys == {"userName", "password", "clientId", "clientSecret"}

\* a validation that stops at the first missing key
validateEnv_FirstMissing(cfg) ==
  LET isMissing(key) == key \notin cfg
      missing == SelectSeq(commonRequired, isMissing)
      hasUserPassword == {"userName", "password"} \subseteq cfg
      hasClientCredentials == {"clientId", "clientSecret"} \subseteq cfg
      all == IF ~hasUserPassword /\ ~hasClientCredentials
             THEN Append(missing, "auth credentials")
             ELSE missing
  IN  IF all = <<>> THEN <<>> ELSE <<Head(all)>>

\* the list validateEnv throws with, <<>> when nothing is missing
validateEnv(cfg) ==
  LET isMissing(key) == key \notin cfg
      missing == SelectSeq(commonRequired, isMissing)
      hasUserPassword == {"userName", "password"} \subseteq cfg
      hasClientCredentials == {"clientId", "clientSecret"} \subseteq cfg
  IN  IF ~hasUserPassword /\ ~hasClientCredentials
      THEN Append(missing, "auth credentials")
      ELSE missing

\* header.slice(7).trim() when the header starts with "bearer ", else null
getBearerTokenFromRequest(authorization) ==
  CASE authorization = "Bearer fwd-token" -> "fwd-token"
    [] authorization = "bearer fwd-token" -> "fwd-token"
    [] authorization = "Bearer   " -> Trim("   ")
    [] OTHER -> ""

\* payload.replace(/^"|"$/g, "") on the strings of the model
Unquote(raw) ==
  CASE raw = "\"gen-token\"" -> "gen-token"
    [] OTHER -> raw

TokenFields == <<"accessToken", "access_token", "token", "jwt", "id_token">>

\* the token, or "" for null
extractToken(payload) ==
  LET held == SelectSeq(TokenFields, LAMBDA f : Get(payload, f, "") # "")
  IN  IF "raw" \in DOMAIN payload THEN Unquote(payload.raw)
      ELSE IF held # <<>> THEN payload[Head(held)]
      ELSE ""

\* an init that starts the instance before it loads the metadata
TokenResolved_StartFirst(s) ==
  CASE s.req.kind = "init" -> Issue(s, "start", "", "")
    [] s.req.kind = "load-step" ->
         loadStepAndRunCustomProcessors([s EXCEPT !.loadId = s.req.externalId])
    [] s.req.kind = "view-item" -> Issue(s, "viewItem", s.req.externalId, "")
    [] OTHER -> Issue(s, "navigate", s.req.externalId, "")

\* the handler once it holds a token
TokenResolved(s) ==
  CASE s.req.kind = "init" -> Issue(s, "metadata", "", "")
    [] s.req.kind = "load-step" ->
         loadStepAndRunCustomProcessors([s EXCEPT !.loadId = s.req.externalId])
    [] s.req.kind = "view-item" -> Issue(s, "viewItem", s.req.externalId, "")
    [] OTHER -> Issue(s, "navigate", s.req.externalId, "")

\* a token acquired whatever the request carries
resolveToken_AlwaysAcquire(s) == Issue(s, "token", "", "")

resolveToken(s) ==
  LET forwardedToken == getBearerTokenFromRequest(s.req.authorization)
  IN  IF forwardedToken # "" THEN TokenResolved([s EXCEPT !.token = forwardedToken])
      ELSE Issue(s, "token", "", "")

\* a handler from its first line to its first await
HandlerStarts(kind, externalId, authorization, cfg) ==
  LET s == [IdleServer EXCEPT !.req = [kind |-> kind, externalId |-> externalId,
                                       authorization |-> authorization]]
      missing == validateEnv(cfg)
  IN  IF missing # <<>>
      THEN HandlerCatch(s, LocalError(MsgList("Missing env vars", missing)))
      ELSE IF kind # "init" /\ externalId = ""
      THEN Respond(s, 400, [message |-> "externalId is required"])
      ELSE resolveToken(s)

\* the list validateViewItemEnv throws with, <<>> when nothing is missing
validateViewItemEnv(cfg) ==
  IF "callViewItemEndpoint" \notin cfg THEN <<"callViewItemEndpoint">> ELSE <<>>

\* the view-item handler from its first line to its first await
\* (index.js 811-824)
ViewItemStarts(externalId, journeyStep, authorization, cfg) ==
  LET s == [IdleServer EXCEPT !.req = [kind |-> "view-item", externalId |-> externalId,
                                       authorization |-> authorization,
                                       journeyStep |-> journeyStep]]
  IN  IF validateEnv(cfg) # <<>>
      THEN HandlerCatch(s, LocalError(MsgList("Missing env vars", validateEnv(cfg))))
      ELSE IF validateViewItemEnv(cfg) # <<>>
      THEN HandlerCatch(s, LocalError(MsgList("Missing env vars", validateViewItemEnv(cfg))))
      ELSE IF externalId = ""
      THEN Respond(s, 400, [message |-> "externalId is required"])
      ELSE IF journeyStep = ""
      THEN Respond(s, 400, [message |-> "journeyStep is required"])
      ELSE resolveToken(s)

\* instanceId looked at before externalId
ExternalIdForLoad_InstanceIdFirst(response, externalId) ==
  IF Get(response, "instanceId", "") # "" THEN response.instanceId
  ELSE IF Get(response, "externalId", "") # "" THEN response.externalId
  ELSE externalId

\* nextResponse?.externalId || nextResponse?.instanceId || externalId
ExternalIdForLoad(response, externalId) ==
  IF Get(response, "externalId", "") # "" THEN response.externalId
  ELSE IF Get(response, "instanceId", "") # "" THEN response.instanceId
  ELSE externalId

(***************************************************************************)
(* What the remote engine may answer.                                      *)
(***************************************************************************)
AllKeys ==
  {commonRequired[i] : i \in 1..Len(commonRequired)} \cup CredentialKeys

Configs ==
  {AllKeys,
   AllKeys \ {"baseUrl", "nextEndpoint"},
   AllKeys \ {"culture", "password", "clientSecret"}}

Errors ==
  {UpstreamError(404, ObjectBody("Instance not found")),
   UpstreamError(404, ObjectBody("")),
   UpstreamError(404, TextBody(Msg("Not Found"))),
   UpstreamError(500, ObjectBody("Internal error")),
   NetworkError}

TokenPayloads ==
  {[raw |-> "\"gen-token\""], [access_token |-> "gen-token"], [expires |-> "3600"]}

MetadataPayloads == {[journeyName |-> "DAO"]}
StartPayloads == {[externalId |-> "E2"], [instanceId |-> "I2"]}
NavigatePayloads ==
  {[externalId |-> "E3", instanceId |-> "I3", nextStep |-> "Offers-1",
    step |-> [journeyStep |-> "Stale"]],
   [instanceId |-> "I3", nextStep |-> "Offers-1"],
   [nextStep |-> "Offers-1"]}

LiveFields ==
  <<[name |-> "firstName", requiredLevel |-> 2],
    [name |-> "phone", requiredLevel |-> 0,
     ui |-> [placeholder |-> JsString("Phone")]],
    [name |-> "internalCode", requiredLevel |-> 0, isVisible |-> FALSE]>>

OverrideConfigs ==
  {NoConfig,
   [loaded |-> TRUE, journeyName |-> "dao",
    formDrivenFlows |->
      <<[steps |->
          <<[journeyStep |-> "Offers-1",
             fields |-> <<[name |-> "phone", orderIdx |-> JsNum(0),
                           inputType |-> JsString("tel")],
                          [name |-> "firstName",
                           isVisible |-> [kind |-> "boolean", b |-> FALSE]]>>]>>]>>]}

ActionDecls ==
  {[type |-> "callCustomProcessor", id |-> "A1"],
   [type |-> "callCustomProcessor", id |-> "A2"],
   [type |-> "redirect", id |-> "B1"]}

IdParts == {EmptyObject, [externalId |-> "E9"], [instanceId |-> "I9"]}

ActionParts(decls, n) ==
  {EmptyObject, [stepActions |-> JsObjectNotList]}
  \cup {[stepActions |-> JsList(l)] : l \in SeqsUpTo(decls, n)}

\* raw step payloads of the load-step endpoint
StepPayloads(decls, n, ids) ==
  {a @@ i @@ [journeyStep |-> "Offers-1", journeyName |-> "DAO",
              fields |-> LiveFields] : a \in ActionParts(decls, n), i \in ids}

Steps == StepPayloads(ActionDecls, MaxActions, IdParts)

\* results of the k-th action call of a pass: the values carry k, so that
\* results of different calls differ
GoodOffers(k) == JsList(<<[offerId |-> 10 * k + 1], [offerId |-> 10 * k + 2]>>)
GoodEsignUrl(k) == JsString("https://sign.example/" \o ToString(k))
GoodPersona(k) == JsObject("inq_" \o ToString(k))
GoodStripe(k) == JsObject("pi_" \o ToString(k))

ActionResults(k) ==
  {EmptyObject,
   [actionResponse |->
      [availableOffers |-> GoodOffers(k), esignUrl |-> GoodEsignUrl(k),
       personaResponse |-> GoodPersona(k), stripePaymentDetails |-> GoodStripe(k)]]}

(***************************************************************************)
(* The client's navigation surface (client/src/App.jsx).                   *)
(*                                                                         *)
(* cli holds the component's state (externalId, step, loading, error,      *)
(* offerCards, selectedOfferId), its refs (actionInFlightRef,              *)
(* initializedRef), the browser session store (storage) and frames: the    *)
(* async functions suspended in an await of a fetch, each with the         *)
(* endpoint it awaits and the values its closure captured.  triggers and   *)
(* picked is, as history, the offer the user selected last; the fields     *)
(* requests count, as history, the calls of go / restartJourney and the    *)
(* fetches they issued.                                                    *)
(***************************************************************************)
\* the error payload members extractApiErrorMessage reads
StringDetails(text) == [kind |-> "string", text |-> text, message |-> "", title |-> ""]
ObjectDetails(message, title) ==
  [kind |-> "object", text |-> "{}", message |-> message, title |-> title]
NoDetails == [kind |-> "none", text |-> "", message |-> "", title |-> ""]

extractApiErrorMessage(payload, fallbackMessage) ==
  LET details == Get(payload, "details", NoDetails)
      message == Get(payload, "message", "")
  IN  IF details.kind = "string" /\ Trim(details.text) # "" THEN details.text
      ELSE IF details.kind = "object"
      THEN IF Trim(details.message) # "" THEN details.message
           ELSE IF Trim(details.title) # "" THEN details.title
           ELSE details.text
      ELSE IF Trim(message) # "" THEN message
      ELSE fallbackMessage

FailedMessage(action) ==
  CASE action = "next" -> "next failed"
    [] action = "previous" -> "previous failed"

\* Array.isArray(step?.availableOffers) ? step.availableOffers : []
StepAvailableOffers(step) == Get(step, "availableOffers", <<>>)

mapAvailableOffersToCards(availableOffers) ==
  [i \in 1..Len(availableOffers) |->
     LET offer == availableOffers[i]
         offerCard == Get(offer, "offerCard", EmptyObject)
         offerCardBenefits == Get(offerCard, "offerCardBenefits", <<>>)
         names == [b \in 1..Len(offerCardBenefits) |->
                     Get(offerCardBenefits[b], "benefitName", "")]
     IN  [offerId |-> Get(offer, "offerId", ""),
          offerCode |-> Get(offer, "offerCode", ""),
          cardId |-> IF Get(offerCard, "cardId", "") # "" THEN offerCard.cardId
                     ELSE Get(offer, "offerId", ""),
          cardTitle |-> IF Get(offerCard, "cardTitle", "") # "" THEN offerCard.cardTitle
                        ELSE IF Get(offer, "offerName", "") # "" THEN offer.offerName
                        ELSE "Offer",
          description |-> Get(offerCard, "cardDescription", ""),
          benefits |-> SelectSeq(names, LAMBDA name : name # "")]]

\* String.replace(/\D/g, "") on the strings of the model
Digits(s) ==
  CASE s = "123-45-6789" -> "123456789"
    [] s = "+1 (555) 0100" -> "15550100"
    [] s = "Ann" -> ""
    [] s = "Bea" -> ""
    [] s = "stale" -> ""
    [] OTHER -> s

\* rawString.trim().startsWith("+")
HasPlusPrefix(s) == s \in {"+1 (555) 0100"}

\* getFieldUi (App.jsx 247-252)
getFieldUi(field) == Get(field, "ui", EmptyObject)

\* defaultFieldValue for the text fields of the model (App.jsx 116-118)
defaultFieldValue(field) == ""

\* coerceInitialFieldValue for a text field: the raw value, or the default
\* when there is none (App.jsx 158-164, 195)
coerceInitialFieldValue(field) ==
  IF "value" \notin DOMAIN field THEN defaultFieldValue(field) ELSE field.value

\* formValues[name] ?? defaultFieldValue(field), then the format of the field
\* (App.jsx 357-376)
formatFieldValueForSubmit(field, formValues) ==
  LET ui == getFieldUi(field)
      value == IF field.name \in DOMAIN formValues THEN formValues[field.name]
               ELSE defaultFieldValue(field)
  IN  IF Get(ui, "phoneCountrySelect", FALSE) = TRUE
      THEN IF Digits(value) = "" THEN ""
           ELSE (IF HasPlusPrefix(value) THEN "+" ELSE "") \o Digits(value)
      ELSE IF ToLowerCase(Get(ui, "mask", JsString("")).v) = "ssn" THEN Digits(value)
      ELSE value

\* buildValuesFromStep (App.jsx 426-432)
buildValuesFromStep(step, formValues) ==
  LET fields == Get(step, "fields", <<>>)
  IN  [i \in 1..Len(fields) |->
         [attribute |-> fields[i].name,
          value |-> JsString(formatFieldValueForSubmit(fields[i], formValues))]]

\* JSON.stringify: the text of a value, kept as the value it is the text of
JsonStringify(x) == [kind |-> "json", of |-> x]

\* buildSelectedOffersPayload (App.jsx 378-397)
buildSelectedOffersPayload(availableOffers, selectedOfferId) ==
  LET hits == {i \in 1..Len(availableOffers) :
                 /\ "offerId" \in DOMAIN availableOffers[i]
                 /\ availableOffers[i].offerId = selectedOfferId}
      selectedOffer == availableOffers[CHOOSE i \in hits : \A j \in hits : i <= j]
  IN  IF hits = {} THEN <<>>
      ELSE <<[offerId |-> Get(selectedOffer, "offerId", ""),
              productsCategory |-> Get(selectedOffer, "productsCategory", <<>>),
              offerName |-> Get(selectedOffer, "offerName", ""),
              offerProducts |-> Get(selectedOffer, "offerProducts", <<>>)]>>

\* isActionStep, isPersonaStep and the key of the auto-advance effects
\* (App.jsx 636-637, 686, 730, 787)
isActionStep(step) == ToLowerCase(Get(step, "journeyStepType", "")) = "action"
isPersonaStep(step) == Get(Get(step, "personaResponse", EmptyObject), "id", "") # ""
StepKey(c) == Get(c.step, "journeyStep", "") \o "|" \o c.externalId

\* the effect that fills formValues for the fields of a new step
\* (App.jsx 594-608)
FormValuesEffect(c) ==
  LET fields == Get(c.step, "fields", <<>>)
      names == {fields[i].name : i \in 1..Len(fields)}
      first(n) == CHOOSE i \in 1..Len(fields) :
                    fields[i].name = n /\ \A j \in 1..(i - 1) : fields[j].name # n
  IN  IF Len(fields) = 0 THEN c
      ELSE [c EXCEPT !.formValues =
              [n \in DOMAIN @ \cup names |->
                 IF n \in DOMAIN @ THEN @[n]
                 ELSE coerceInitialFieldValue(fields[first(n)])]]

\* the Persona effect up to the set-up of the widget (App.jsx 780-853):
\* personaWidget is the stepKey the callbacks of the widget closed over
PersonaEffect(c) ==
  IF ~isPersonaStep(c.step)
  THEN [c EXCEPT !.personaInitRef = "", !.personaAutoAdvanceRef = "",
                 !.personaWidget = ""]
  ELSE IF c.personaInitRef = StepKey(c) THEN c
  ELSE [c EXCEPT !.personaInitRef = StepKey(c), !.personaWidget = StepKey(c)]

\* journeyStep.startsWith("Offer-") on the step names of the model
StartsWithOffer(journeyStep) == journeyStep \in {"Offer-1", "Offer-2"}

\* the effects without the removal of a stored selection that the refreshed
\* list does not contain
StepEffects_KeepsStored(c0) ==
  LET c == PersonaEffect(FormValuesEffect(c0))
      journeyStep == Get(c.step, "journeyStep", "")
      viewed == IF journeyStep # "" /\ StartsWithOffer(journeyStep)
                THEN [c EXCEPT !.storage.offerViewStep = journeyStep]
                ELSE c
      offers == StepAvailableOffers(c.step)
      cards == mapAvailableOffersToCards(offers)
      storedSelectedOfferId == viewed.storage.selectedOfferId
      hasStoredOffer == \E i \in 1..Len(cards) : cards[i].offerId = storedSelectedOfferId
  IN  IF Len(offers) > 0
      THEN IF hasStoredOffer
           THEN [viewed EXCEPT !.offerCards = cards,
                               !.selectedOfferId = storedSelectedOfferId]
           ELSE [viewed EXCEPT !.offerCards = cards, !.selectedOfferId = ""]
      ELSE [viewed EXCEPT !.offerCards = <<>>, !.selectedOfferId = "",
                          !.storage.selectedOfferId = ""]

\* the effects keyed on step (App.jsx 594-608, 690-722, 780-853), run after a
\* render that committed a step
StepEffects(c0) ==
  LET c == PersonaEffect(FormValuesEffect(c0))
      journeyStep == Get(c.step, "journeyStep", "")
      viewed == IF journeyStep # "" /\ StartsWithOffer(journeyStep)
                THEN [c EXCEPT !.storage.offerViewStep = journeyStep]
                ELSE c
      offers == StepAvailableOffers(c.step)
      cards == mapAvailableOffersToCards(offers)
      storedSelectedOfferId == viewed.storage.selectedOfferId
      hasStoredOffer == \E i \in 1..Len(cards) : cards[i].offerId = storedSelectedOfferId
  IN  IF Len(offers) > 0
      THEN IF hasStoredOffer
           THEN [viewed EXCEPT !.offerCards = cards,
                               !.selectedOfferId = storedSelectedOfferId]
           ELSE [viewed EXCEPT !.offerCards = cards, !.selectedOfferId = "",
                               !.storage.selectedOfferId = ""]
      ELSE [viewed EXCEPT !.offerCards = <<>>, !.selectedOfferId = "",
                          !.storage.selectedOfferId = ""]

\* sessionStorage of a tab that holds none of the app's keys
EmptyStorage == [journeyExternalId |-> "", selectedOfferId |-> "", offerViewStep |-> ""]

\* the component after its first render, before its effects ran
\* (App.jsx 472-488)
NewClient(storage) ==
  [externalId |-> "", step |-> Absent, loading |-> FALSE, error |-> "",
   offerCards |-> <<>>, selectedOfferId |-> storage.selectedOfferId,
   actionInFlightRef |-> FALSE, initializedRef |-> FALSE,
   formValues |-> EmptyObject,
   actionStepAutoAdvanceRef |-> "", autoDeps |-> <<>>, autoLog |-> <<>>,
   personaInitRef |-> "", personaAutoAdvanceRef |-> "", personaWidget |-> "",
   esignAutoAdvanceRef |-> "", esignLog |-> <<>>, personaLog |-> <<>>,
   initLog |-> <<>>,
   summarySelectedOffers |-> <<>>, summaryLoading |-> FALSE, summaryError |-> "",
   summaryDeps |-> <<>>, summaryFetches |-> {}, summaryLog |-> <<>>,
   picked |-> "", storage |-> storage, frames |-> {},
   triggers |-> 0, requests |-> 0, returnedAtGuard |-> 0]

Frame(fn, awaiting, action, externalId) ==
  [fn |-> fn, awaiting |-> awaiting, action |-> action, externalId |-> externalId,
   values |-> <<>>]

\* fetch(...) awaited by the function fn
Fetch(c, frame) == [c EXCEPT !.frames = @ \cup {frame}]

\* isSummaryStep (App.jsx 651-654); String.prototype.includes("summary") on
\* the lowered step names of the model
IncludesSummary(lowered) == lowered \in {"summary", "order summary"}
isSummaryStep(step) == IncludesSummary(ToLowerCase(Get(step, "journeyStep", "")))

\* parseSelectedOffersValue (App.jsx 434-449): an array as it is, the text
\* of a JSON array parsed, anything else the empty list
parseSelectedOffersValue(rawValue) ==
  CASE rawValue.kind = "array" -> rawValue.items
    [] rawValue.kind = "json" ->
         IF rawValue.of.kind = "array" THEN rawValue.of.items ELSE <<>>
    [] OTHER -> <<>>

\* extractSummarySelectedOffers (App.jsx 451-460)
extractSummarySelectedOffers(viewItemPayload) ==
  LET fields == Get(viewItemPayload, "fields", <<>>)
      hits == {i \in 1..Len(fields) : Get(fields[i], "name", "") = "selectedOfferIds"}
      selectedOfferField == fields[CHOOSE i \in hits : \A j \in hits : i <= j]
  IN  IF hits = {} THEN <<>>
      ELSE SelectSeq(parseSelectedOffersValue(selectedOfferField.value),
                     LAMBDA offer : offer.kind = "object")

\* the summary effect and its cleanup (App.jsx 928-985): the cleanup of the
\* previous run cancels the request that run awaits; summaryFetches holds
\* the awaited requests, each with the cancelled flag of its closure
summaryEffect(c) ==
  LET deps == <<isSummaryStep(c.step), c.externalId>>
      viewStep == c.storage.offerViewStep
      cleaned == [c EXCEPT !.summaryDeps = deps,
                           !.summaryFetches = {[f EXCEPT !.cancelled = TRUE] : f \in @}]
  IN  IF c.summaryDeps = deps THEN c
      ELSE IF ~isSummaryStep(c.step) \/ c.externalId = ""
      THEN [cleaned EXCEPT !.summarySelectedOffers = <<>>, !.summaryLoading = FALSE,
                           !.summaryError = ""]
      ELSE IF viewStep = ""
      THEN [cleaned EXCEPT !.summarySelectedOffers = <<>>, !.summaryLoading = FALSE,
                           !.summaryError =
                             "Could not find selected offer details for this summary step."]
      ELSE [cleaned EXCEPT !.summaryLoading = TRUE, !.summaryError = "",
                           !.summaryFetches =
                             @ \cup {[externalId |-> c.externalId, journeyStep |-> viewStep,
                                      cancelled |-> FALSE]}]

\* loadSummarySelectedOffers with no check of cancelled
loadSummaryAnswered_AppliesAll(c, fetch, response) ==
  LET rest == [c EXCEPT !.summaryFetches = @ \ {fetch},
                        !.summaryLog = Append(@, "applied")]
  IN  IF response.outcome = "ok"
      THEN [rest EXCEPT !.summarySelectedOffers =
                          extractSummarySelectedOffers(response.payload),
                        !.summaryLoading = FALSE]
      ELSE [rest EXCEPT !.summarySelectedOffers = <<>>,
                        !.summaryError =
                          IF response.outcome = "network-error" THEN "Failed to fetch"
                          ELSE extractApiErrorMessage(response.payload,
                                                      "Load summary offer failed"),
                        !.summaryLoading = FALSE]

\* loadSummarySelectedOffers after the answer of /api/journey/view-item
\* (App.jsx 962-979); summaryLog records, as history, what became of each
\* answer
loadSummaryAnswered(c, fetch, response) ==
  LET rest == [c EXCEPT !.summaryFetches = @ \ {fetch},
                        !.summaryLog = Append(@, IF fetch.cancelled THEN "discarded"
                                                 ELSE "applied")]
  IN  IF fetch.cancelled THEN rest
      ELSE IF response.outcome = "ok"
      THEN [rest EXCEPT !.summarySelectedOffers =
                          extractSummarySelectedOffers(response.payload),
                        !.summaryLoading = FALSE]
      ELSE [rest EXCEPT !.summarySelectedOffers = <<>>,
                        !.summaryError =
                          IF response.outcome = "network-error" THEN "Failed to fetch"
                          ELSE extractApiErrorMessage(response.payload,
                                                      "Load summary offer failed"),
                        !.summaryLoading = FALSE]

\* startNewJourney up to its await of /api/journey/init (App.jsx 505-535);
\* initLog records, as history, the callers of its POST /api/journey/init
startNewJourney(c, fn) ==
  Fetch([c EXCEPT !.loading = TRUE, !.error = "", !.offerCards = <<>>,
                  !.selectedOfferId = "", !.formValues = EmptyObject,
                  !.actionStepAutoAdvanceRef = "", !.personaInitRef = "",
                  !.personaAutoAdvanceRef = "", !.storage = EmptyStorage,
                  !.summarySelectedOffers = <<>>, !.summaryLoading = FALSE,
                  !.summaryError = "",
                  !.initLog = Append(@, fn)],
        Frame(fn, "init", "", ""))

\* startNewJourney after a 2xx answer, without its sessionStorage.setItem
JourneyStarted_NotStored(c, payload) ==
  StepEffects([c EXCEPT !.externalId = payload.externalId,
                        !.step = payload.step])

\* startNewJourney after a 2xx answer (App.jsx 542-545)
JourneyStarted(c, payload) ==
  StepEffects([c EXCEPT !.externalId = payload.externalId,
                        !.step = payload.step,
                        !.storage.journeyExternalId = payload.externalId])

\* the catch of go and restartJourney with no finally after it
NavigationCatch_KeepsGuard(c, message) == [c EXCEPT !.error = message]

\* catch (e) { setError(e.message) } finally { ... } of go and restartJourney
NavigationCatch(c, message) ==
  [c EXCEPT !.error = message, !.actionInFlightRef = FALSE, !.loading = FALSE]
\* finally { actionInFlightRef.current = false; setLoading(false) }
NavigationFinally(c) == [c EXCEPT !.actionInFlightRef = FALSE, !.loading = FALSE]

\* the values with the selected offer appended to whatever the fields gave
GoValues_AppendsOffer(c, action, options) ==
  LET isOffersSelectionStep == Len(c.offerCards) > 0
      overrideValues == Get(options, "overrideValues", JsNoList)
      values == IF options.forceEmptyValues THEN <<>>
                ELSE buildValuesFromStep(c.step, c.formValues)
      selectedOffersPayload ==
        buildSelectedOffersPayload(StepAvailableOffers(c.step), c.selectedOfferId)
      withOffer ==
        IF isOffersSelectionStep /\ action = "next" /\ ~options.forceEmptyValues
        THEN Append(values, [attribute |-> "selectedOfferIds",
                             value |-> JsonStringify(selectedOffersPayload)])
        ELSE values
  IN  IF overrideValues.kind = "array" THEN overrideValues.items ELSE withOffer

\* the values go posts (App.jsx 1124-1157)
GoValues(c, action, options) ==
  LET isOffersSelectionStep == Len(c.offerCards) > 0
      overrideValues == Get(options, "overrideValues", JsNoList)
      values == IF options.forceEmptyValues THEN <<>>
                ELSE buildValuesFromStep(c.step, c.formValues)
      selectedOffersPayload ==
        buildSelectedOffersPayload(StepAvailableOffers(c.step), c.selectedOfferId)
      withOffer ==
        IF isOffersSelectionStep /\ action = "next" /\ ~options.forceEmptyValues
        THEN Append(SelectSeq(values, LAMBDA item : item.attribute # "selectedOfferIds"),
                    [attribute |-> "selectedOfferIds",
                     value |-> JsonStringify(selectedOffersPayload)])
        ELSE values
  IN  IF overrideValues.kind = "array" THEN overrideValues.items ELSE withOffer

GoOptions ==
  {[forceEmptyValues |-> FALSE, skipOfferValidation |-> FALSE],
   [forceEmptyValues |-> TRUE, skipOfferValidation |-> TRUE]}

\* go without its validation of the offer selection
go_NoOfferValidation(c, action, options) ==
  LET started == [c EXCEPT !.actionInFlightRef = TRUE, !.loading = TRUE, !.error = ""]
  IN  IF c.actionInFlightRef THEN c
      ELSE [Fetch(started, [Frame("go", action, action, c.externalId)
                              EXCEPT !.values = GoValues(c, action, options)])
              EXCEPT !.requests = @ + 1]

\* go without its check of actionInFlightRef
go_Unguarded(c, action, options) ==
  LET isOffersSelectionStep == Len(c.offerCards) > 0
      started == [c EXCEPT !.actionInFlightRef = TRUE, !.loading = TRUE, !.error = ""]
  IN  IF /\ isOffersSelectionStep
         /\ action = "next"
         /\ c.selectedOfferId = ""
         /\ ~options.skipOfferValidation
      THEN NavigationCatch(started, "Please select an offer before continuing.")
      ELSE [Fetch(started, [Frame("go", action, action, c.externalId)
                              EXCEPT !.values = GoValues(c, action, options)])
              EXCEPT !.requests = @ + 1]

\* go from its call to its first await or its return (App.jsx 1108-1163)
go(c, action, options) ==
  LET isOffersSelectionStep == Len(c.offerCards) > 0
      started == [c EXCEPT !.actionInFlightRef = TRUE, !.loading = TRUE, !.error = ""]
  IN  IF c.actionInFlightRef THEN c
      ELSE IF /\ isOffersSelectionStep
              /\ action = "next"
              /\ c.selectedOfferId = ""
              /\ ~options.skipOfferValidation
      THEN NavigationCatch(started, "Please select an offer before continuing.")
      ELSE [Fetch(started, [Frame("go", action, action, c.externalId)
                              EXCEPT !.values = GoValues(c, action, options)])
              EXCEPT !.requests = @ + 1]

\* restartJourney from its call to its first await or its return
\* (App.jsx 1187-1194)
restartJourney(c) ==
  IF c.actionInFlightRef THEN c
  ELSE [startNewJourney([c EXCEPT !.actionInFlightRef = TRUE], "restartJourney")
          EXCEPT !.requests = @ + 1]

\* go with a catch that also forgets the stored instance
GoAnswered_ForgetsStored(c, frame, response) ==
  LET rest == [c EXCEPT !.frames = @ \ {frame}]
      nextExternalId == IF Get(response.payload, "externalId", "") # ""
                        THEN response.payload.externalId
                        ELSE frame.externalId
      moved == [rest EXCEPT !.externalId = nextExternalId,
                            !.storage.journeyExternalId = nextExternalId]
      rendered == PersonaEffect(moved)
  IN  CASE response.outcome \in {"network-error", "http-error"} ->
             NavigationCatch([rest EXCEPT !.storage.journeyExternalId = ""],
                             "Failed to fetch")
        [] OTHER ->
             IF "step" \in DOMAIN response.payload
             THEN NavigationFinally(StepEffects([moved EXCEPT !.step = response.payload.step]))
             ELSE [Fetch(rendered, Frame("go", "load-step", frame.action, nextExternalId))
                     EXCEPT !.requests = @ + 1]

\* go after the answer of /api/journey/<action> (App.jsx 1165-1184)
GoAnswered(c, frame, response) ==
  LET rest == [c EXCEPT !.frames = @ \ {frame}]
      nextExternalId == IF Get(response.payload, "externalId", "") # ""
                        THEN response.payload.externalId
                        ELSE frame.externalId
      moved == [rest EXCEPT !.externalId = nextExternalId,
                            !.storage.journeyExternalId = nextExternalId]
      rendered == PersonaEffect(moved)
  IN  CASE response.outcome = "network-error" ->
             NavigationCatch(rest, "Failed to fetch")
        [] response.outcome = "http-error" ->
             NavigationCatch(rest, extractApiErrorMessage(response.payload,
                                                          FailedMessage(frame.action)))
        [] OTHER ->
             IF "step" \in DOMAIN response.payload
             THEN NavigationFinally(StepEffects([moved EXCEPT !.step = response.payload.step]))
             ELSE [Fetch(rendered, Frame("go", "load-step", frame.action, nextExternalId))
                     EXCEPT !.requests = @ + 1]

\* go after the answer of reloadStep's /api/journey/load-step
\* (App.jsx 1093-1106, 1177-1184)
ReloadAnswered(c, frame, response) ==
  LET rest == [c EXCEPT !.frames = @ \ {frame}]
  IN  CASE response.outcome = "network-error" ->
             NavigationCatch(rest, "Failed to fetch")
        [] response.outcome = "http-error" ->
             NavigationCatch(rest, extractApiErrorMessage(response.payload,
                                                          "Load step failed"))
        [] OTHER ->
             NavigationFinally(StepEffects([rest EXCEPT !.step = response.payload]))

\* restartJourney after the answer of /api/journey/init (App.jsx 537-545,
\* 1195-1200)
RestartAnswered(c, frame, response) ==
  LET rest == [c EXCEPT !.frames = @ \ {frame}]
  IN  CASE response.outcome = "network-error" ->
             NavigationCatch(rest, "Failed to fetch")
        [] response.outcome = "http-error" ->
             NavigationCatch(rest, extractApiErrorMessage(response.payload,
                                                          "Restart journey failed"))
        [] OTHER -> NavigationFinally(JourneyStarted(rest, response.payload))

\* the mount effect initJourney up to its first await (App.jsx 548-571)
initJourney(c) ==
  LET begun == [c EXCEPT !.initializedRef = TRUE, !.loading = TRUE, !.error = ""]
      storedExternalId == c.storage.journeyExternalId
  IN  IF c.initializedRef THEN c
      ELSE IF storedExternalId # ""
      THEN Fetch(begun, Frame("initJourney", "load-step", "", storedExternalId))
      ELSE startNewJourney(begun, "initJourney")

\* initJourney after the answer of its load-step (App.jsx 573-588)
InitLoadAnswered(c, frame, response) ==
  LET rest == [c EXCEPT !.frames = @ \ {frame}]
  IN  CASE response.outcome = "network-error" ->
             [rest EXCEPT !.error = "Failed to fetch", !.loading = FALSE]
        [] response.outcome = "http-error" ->
             startNewJourney([rest EXCEPT !.storage.journeyExternalId = ""],
                             "initJourney")
        [] OTHER ->
             [StepEffects([rest EXCEPT !.externalId = frame.externalId,
                                       !.step = response.payload])
                EXCEPT !.loading = FALSE]

\* initJourney after the answer of startNewJourney's init
InitStartAnswered(c, frame, response) ==
  LET rest == [c EXCEPT !.frames = @ \ {frame}]
  IN  CASE response.outcome = "network-error" ->
             [rest EXCEPT !.error = "Failed to fetch", !.loading = FALSE]
        [] response.outcome = "http-error" ->
             [rest EXCEPT !.error = extractApiErrorMessage(response.payload,
                                                           "Restart journey failed"),
                          !.loading = FALSE]
        [] OTHER -> [JourneyStarted(rest, response.payload) EXCEPT !.loading = FALSE]

\* onSelectOffer (App.jsx 1088-1091)
onSelectOffer(c, offerId) ==
  [c EXCEPT !.selectedOfferId = offerId, !.storage.selectedOfferId = offerId,
            !.picked = offerId]

\* the dependencies of the action-step effect: it runs after a render in
\* which one of them changed (App.jsx 737)
AutoDeps(c) == <<isActionStep(c.step), Get(c.step, "journeyStep", ""), c.externalId>>

AutoOptions == [forceEmptyValues |-> TRUE, skipOfferValidation |-> TRUE]

\* the effect without its reset of the ref while another step is displayed
actionStepAutoAdvanceEffect_KeepsRef(c) ==
  LET ran == [c EXCEPT !.autoDeps = AutoDeps(c)]
      marked == [ran EXCEPT !.actionStepAutoAdvanceRef = StepKey(c)]
      called == go(marked, "next", AutoOptions)
  IN  IF c.autoDeps = AutoDeps(c) THEN c
      ELSE IF ~isActionStep(c.step) THEN ran
      ELSE IF c.actionStepAutoAdvanceRef = StepKey(c) THEN ran
      ELSE [called EXCEPT !.autoLog = IF called.requests > marked.requests
                                      THEN Append(@, StepKey(c)) ELSE @]

\* the action-step auto-advance effect (App.jsx 724-737); autoLog records,
\* as history, the keys for which its call of go issued a request
actionStepAutoAdvanceEffect(c) ==
  LET ran == [c EXCEPT !.autoDeps = AutoDeps(c)]
      marked == [ran EXCEPT !.actionStepAutoAdvanceRef = StepKey(c)]
      called == go(marked, "next", AutoOptions)
  IN  IF c.autoDeps = AutoDeps(c) THEN c
      ELSE IF ~isActionStep(c.step) THEN [ran EXCEPT !.actionStepAutoAdvanceRef = ""]
      ELSE IF c.actionStepAutoAdvanceRef = StepKey(c) THEN ran
      ELSE [called EXCEPT !.autoLog = IF called.requests > marked.requests
                                      THEN Append(@, StepKey(c)) ELSE @]

\* completePersonaStep with a key that leaves the decision out
completePersonaStep_KeyPerStep(c, eidvPassed) ==
  LET decisionKey == c.personaWidget
      marked == [c EXCEPT !.personaAutoAdvanceRef = decisionKey]
      called == go(marked, "next",
                   [forceEmptyValues |-> TRUE, skipOfferValidation |-> TRUE,
                    overrideValues |->
                      JsList(<<[attribute |-> "eidvPassed",
                                value |-> [kind |-> "boolean", b |-> eidvPassed]]>>)])
  IN  IF c.personaAutoAdvanceRef = decisionKey THEN c
      ELSE [called EXCEPT !.personaLog = IF called.requests > marked.requests
                                         THEN Append(@, c.personaWidget) ELSE @]

\* completePersonaStep of the widget set up for personaWidget
\* (App.jsx 808-820); personaLog records, as history, the step keys for
\* which its call of go issued a request
completePersonaStep(c, eidvPassed) ==
  LET decisionKey == c.personaWidget \o "|" \o (IF eidvPassed THEN "pass" ELSE "fail")
      marked == [c EXCEPT !.personaAutoAdvanceRef = decisionKey]
      called == go(marked, "next",
                   [forceEmptyValues |-> TRUE, skipOfferValidation |-> TRUE,
                    overrideValues |->
                      JsList(<<[attribute |-> "eidvPassed",
                                value |-> [kind |-> "boolean", b |-> eidvPassed]]>>)])
  IN  IF c.personaAutoAdvanceRef = decisionKey THEN c
      ELSE [called EXCEPT !.personaLog = IF called.requests > marked.requests
                                         THEN Append(@, c.personaWidget) ELSE @]

\* isESignStep (App.jsx 657-662, 685)
isESignStep(step) == Trim(Get(step, "esignUrl", "")) # ""

\* window.location.origin of the page, and ESIGN_CALLBACK_PATH (App.jsx 6)
Origin == "https://app.example"
ESIGN_CALLBACK_PATH == "/esign/callback"

\* href.startsWith(window.location.origin), new URL(url, origin).pathname
\* and url.toLowerCase() on the addresses of the model
StartsWithOrigin(href) ==
  href \in {"https://app.example/esign/callback?envelope=1",
            "https://app.example/done?Status=Completed",
            "https://app.example/help"}
Pathname(url) ==
  CASE url = "https://app.example/esign/callback?envelope=1" -> "/esign/callback"
    [] url = "https://app.example/done?Status=Completed" -> "/done"
    [] url = "https://app.example/help" -> "/help"
    [] OTHER -> "/"
LoweredUrl(url) ==
  CASE url = "https://app.example/done?Status=Completed" ->
         "https://app.example/done?status=completed"
    [] OTHER -> url
IncludesCompletionMark(lowered) ==
  lowered \in {"https://app.example/done?status=completed"}

\* isCompletedSigningUrl (App.jsx 986-1004)
isCompletedSigningUrl(url) ==
  IF url = "" THEN FALSE
  ELSE IF Pathname(url) = ESIGN_CALLBACK_PATH THEN TRUE
  ELSE IncludesCompletionMark(LoweredUrl(url))

\* the completion handled with the in-flight guard consulted before the key
\* is recorded
esignAutoAdvance_GuardFirst(c) ==
  LET marked == [c EXCEPT !.esignAutoAdvanceRef = StepKey(c)]
      called == go(marked, "next", AutoOptions)
  IN  IF c.esignAutoAdvanceRef = StepKey(c) \/ c.actionInFlightRef THEN c
      ELSE [called EXCEPT !.esignLog = IF called.requests > marked.requests
                                       THEN Append(@, StepKey(c)) ELSE @]

\* the next of an eSign completion (App.jsx 767-773, 1022-1027); esignLog
\* records, as history, the step keys for which go issued a request
esignAutoAdvance(c) ==
  LET marked == [c EXCEPT !.esignAutoAdvanceRef = StepKey(c)]
      called == go(marked, "next", AutoOptions)
  IN  IF c.esignAutoAdvanceRef = StepKey(c) THEN c
      ELSE [called EXCEPT !.esignLog = IF called.requests > marked.requests
                                       THEN Append(@, StepKey(c)) ELSE @]

\* the message listener of an eSign step (App.jsx 754-778); no listener is
\* registered while another step is displayed
onMessage(c, event) ==
  IF ~isESignStep(c.step) THEN c
  ELSE IF event.origin # Origin THEN c
  ELSE IF Get(event.data, "type", "") # "ESIGN_COMPLETED" THEN c
  ELSE esignAutoAdvance(c)

\* onEsignIframeLoad (App.jsx 1006-1031); reading the location of a frame
\* of another origin throws, and the catch ignores it
onEsignIframeLoad(c, location) ==
  IF ~isESignStep(c.step) THEN c
  ELSE IF location.throws THEN c
  ELSE IF location.href = "" THEN c
  ELSE IF ~StartsWithOrigin(location.href) \/ ~isCompletedSigningUrl(location.href) THEN c
  ELSE esignAutoAdvance(c)

\* onFieldChange of a text field without mask (App.jsx 1203-1211)
onFieldChange(c, field, value) == [c EXCEPT !.formValues[field.name] = value]

\* the buttons of the navigation row (App.jsx 1723-1751)
ShowNext(step) ==
  Get(Get(Get(step, "properties", EmptyObject), "nextButton", EmptyObject), "show", FALSE)
ShowPrevious(step) ==
  \/ Get(Get(Get(step, "properties", EmptyObject), "previousButton", EmptyObject),
         "show", FALSE)
  \/ Get(step, "isFirstStep", TRUE) = FALSE
DefaultOptions ==
  [forceEmptyValues |-> FALSE, skipOfferValidation |-> FALSE,
   overrideValues |-> JsNullList]


(***************************************************************************)
(* The offers endpoint, POST /api/offers/available (server/index.js        *)
(* 844-911).                                                               *)
(*                                                                         *)
(* ofr is the handler's frame: offersArray is the list the upstream        *)
(* answered, pending the positions whose detail request is outstanding     *)
(* (all are issued together by Promise.all), details the array Promise.all *)
(* fills.  fetched, delivered and arrival record, as history, the offer id *)
(* each request asked for, the detail each request was answered with, and  *)
(* the order in which the answers came.                                    *)
(***************************************************************************)
pfapiRequired ==
  <<"pfapiBaseUrl", "pfapiTokenEndpoint", "availableOffersEndpoint",
    "offerDetailsEndpoint", "clientId", "clientSecret">>

\* the list validatePfapiEnv throws with, <<>> when nothing is missing
validatePfapiEnv(cfg) == SelectSeq(pfapiRequired, LAMBDA key : key \notin cfg)

\* a slot of Promise.all's result that no answer has filled
NotSettled == [settled |-> FALSE]
\* a detail answer of JSON null
NullDetail == [isNull |-> TRUE]

IdleOffers ==
  [pc |-> "idle", token |-> "", offersArray |-> <<>>, pending |-> {},
   details |-> <<>>, res |-> NoRes,
   fetched |-> <<>>, delivered |-> <<>>, arrival |-> <<>>]

\* the catch block of the offers handler
OffersCatch(o, error) ==
  [o EXCEPT !.pc = "done",
            !.res = [status |-> 500,
                     body |-> [message |-> "Load available offers failed",
                               details |-> ErrorDetails(error)]]]

\* the handler from its first line to its await of getPfapiToken
OffersHandlerStarts(cfg) ==
  LET missing == validatePfapiEnv(cfg)
  IN  IF missing # <<>>
      THEN OffersCatch(IdleOffers, LocalError(MsgList("Missing PFAPI env vars", missing)))
      ELSE [IdleOffers EXCEPT !.pc = "token"]

\* getPfapiToken after its post came back, and the available-offers request
PfapiTokenReturned(o, payload) ==
  LET token == extractToken(payload)
  IN  IF token = ""
      THEN OffersCatch(o, LocalError(Msg(
             "Could not extract token from PFAPI authentication response")))
      ELSE [o EXCEPT !.pc = "available", !.token = token]

\* one card of the response (index.js 890-897)
MapCard(card, offer) ==
  [k \in {"cardId"} \cap DOMAIN card |-> card[k]]
  @@ [cardTitle |-> IF Get(card, "cardTitle", "") # "" THEN card.cardTitle
                    ELSE IF Get(offer, "offerName", "") # "" THEN offer.offerName
                    ELSE "Offer",
      description |-> Get(card, "cardDescription", ""),
      benefits |-> LET offerCardBenefits == Get(card, "offerCardBenefits", <<>>)
                   IN  [b \in 1..Len(offerCardBenefits) |->
                          Get(offerCardBenefits[b], "benefitName", "")]]

\* one element of mappedOffers (index.js 881-899)
MapOffer(offer, settled) ==
  LET detail == IF settled = NullDetail THEN EmptyObject ELSE settled
      held == Get(detail, "offerCards", JsNullList)
      offerCards == IF held.kind = "array" THEN held.items ELSE <<>>
  IN  [k \in {"offerId", "offerName"} \cap DOMAIN offer |-> offer[k]]
      @@ [offerCode |-> IF Get(detail, "offerCode", "") # ""
                        THEN JsString(detail.offerCode) ELSE JsNull,
          cards |-> [c \in 1..Len(offerCards) |-> MapCard(offerCards[c], offer)]]

mappedOffers(offersArray, details) ==
  [index \in 1..Len(offersArray) |-> MapOffer(offersArray[index], details[index])]

\* res.json({ offers: mappedOffers })
OffersRespond(o) ==
  [o EXCEPT !.pc = "done",
            !.res = [status |-> 200,
                     body |-> [offers |-> mappedOffers(o.offersArray, o.details)]]]

\* `${offerDetailsEndpoint}/${offer.offerId}/details`
DetailsUrl(offer) == Get(offer, "offerId", "undefined")

\* the handler after the available-offers request came back: every detail
\* request is issued before any of them is awaited (index.js 870-879)
AvailableReturned(o, availableOffers) ==
  LET offersArray == IF availableOffers.kind = "array" THEN availableOffers.items
                     ELSE <<>>
      n == Len(offersArray)
      issued == [o EXCEPT !.offersArray = offersArray,
                          !.pending = 1..n,
                          !.details = [i \in 1..n |-> NotSettled],
                          !.fetched = [i \in 1..n |-> DetailsUrl(offersArray[i])],
                          !.delivered = [i \in 1..n |-> NotSettled]]
  IN  IF n = 0 THEN OffersRespond(issued)
      ELSE [issued EXCEPT !.pc = "details"]

\* an array filled in the order the answers arrive
SettleAt_ArrivalOrder(details, index, detail) ==
  LET free == {i \in 1..Len(details) : details[i] = NotSettled}
      first == CHOOSE i \in free : \A j \in free : i <= j
  IN  [details EXCEPT ![first] = detail]

\* Promise.all keeps each fulfilment at the position of its promise
SettleAt(details, index, detail) == [details EXCEPT ![index] = detail]

\* the detail request of position index is answered
DetailReturned(o, index, detail) ==
  LET settled == [o EXCEPT !.details = SettleAt(@, index, detail),
                           !.pending = @ \ {index},
                           !.delivered[index] = detail,
                           !.arrival = Append(@, index)]
  IN  IF settled.pending = {} THEN OffersRespond(settled) ELSE settled

\* a failed detail request counted as an answer without details
DetailFailed_Partial(o, index, error) ==
  LET settled == [o EXCEPT !.details = SettleAt(@, index, NullDetail),
                           !.pending = @ \ {index},
                           !.arrival = Append(@, index)]
  IN  IF settled.pending = {} THEN OffersRespond(settled) ELSE settled

\* a detail request fails: Promise.all rejects with that error at once
DetailFailed(o, index, error) ==
  OffersCatch([o EXCEPT !.pending = @ \ {index}, !.arrival = Append(@, index)], error)


(***************************************************************************)
(* The actions of the backend.                                             *)
(***************************************************************************)
InitServer ==
  /\ config \in Configs
  /\ overridesConfig \in OverrideConfigs
  /\ srv = IdleServer
  /\ cli = NewClient(EmptyStorage)
  /\ ofr = IdleOffers

ReceiveRequest(kinds, ids, headers) ==
  /\ srv.pc = "idle"
  /\ \E kind \in kinds, externalId \in ids, authorization \in headers :
       srv' = HandlerStarts(kind, externalId, authorization, config)
  /\ UNCHANGED <<config, overridesConfig, cli, ofr>>

TokenReturns ==
  /\ srv.pc = "token"
  /\ \/ \E payload \in TokenPayloads :
          LET token == extractToken(payload)
          IN  srv' = IF token = ""
                     THEN HandlerCatch(srv, LocalError(Msg(
                            "Could not extract token from authentication response")))
                     ELSE TokenResolved([srv EXCEPT !.token = token,
                                                    !.outstanding = NoCall])
     \/ \E error \in Errors : srv' = HandlerCatch(srv, error)
  /\ UNCHANGED <<config, overridesConfig, cli, ofr>>

MetadataReturns ==
  /\ srv.pc = "metadata"
  /\ \/ \E metadata \in MetadataPayloads :
          srv' = Issue([srv EXCEPT !.metadata = metadata], "start", "", "")
     \/ \E error \in Errors : srv' = HandlerCatch(srv, error)
  /\ UNCHANGED <<config, overridesConfig, cli, ofr>>

StartReturns ==
  /\ srv.pc = "start"
  /\ \/ \E start \in StartPayloads :
          LET externalId == Get(start, "externalId", "")
          IN  srv' = IF externalId = ""
                     THEN HandlerCatch(srv, LocalError(Msg(
                            "Start Journey did not return externalId")))
                     ELSE loadStepAndRunCustomProcessors(
                            [srv EXCEPT !.start = start, !.loadId = externalId])
     \/ \E error \in Errors : srv' = HandlerCatch(srv, error)
  /\ UNCHANGED <<config, overridesConfig, cli, ofr>>

NavigateReturns ==
  /\ srv.pc = "navigate"
  /\ \/ \E response \in NavigatePayloads :
          srv' = loadStepAndRunCustomProcessors(
                   [srv EXCEPT !.nav = response,
                               !.loadId = ExternalIdForLoad(response, srv.req.externalId),
                               !.attempt = 1])
     \/ \E error \in Errors : srv' = HandlerCatch(srv, error)
  /\ UNCHANGED <<config, overridesConfig, cli, ofr>>

LoadStepReturns(steps) ==
  /\ srv.pc = "loadStep"
  /\ \/ \E step \in steps : srv' = StepLoaded(srv, step, overridesConfig)
     \/ \E error \in Errors : srv' = PassThrows(srv, error)
  /\ UNCHANGED <<config, overridesConfig, cli, ofr>>

\* results[k]: what the k-th action call of a pass may be answered with
ActionReturns(results) ==
  /\ srv.pc = "action"
  /\ \/ \E result \in results[Len(srv.passCalls)] : srv' = ActionReturned(srv, result)
     \/ \E error \in Errors : srv' = PassThrows(srv, error)
  /\ UNCHANGED <<config, overridesConfig, cli, ofr>>

\* await sleep(delayMs) is over: the loop's next turn
SleepElapses ==
  /\ srv.pc = "sleep"
  /\ srv' = loadStepAndRunCustomProcessors([srv EXCEPT !.attempt = @ + 1])
  /\ UNCHANGED <<config, overridesConfig, cli, ofr>>

\* the response is out and the handler's frame is gone: nothing of one
\* request is kept for the next
HandlerEnds ==
  /\ srv.pc = "done"
  /\ srv' = IdleServer
  /\ UNCHANGED <<config, overridesConfig, cli, ofr>>

NextServer ==
  \/ ReceiveRequest(Kinds, {"", "E1"}, {"", "Bearer fwd-token"})
  \/ TokenReturns
  \/ MetadataReturns
  \/ StartReturns
  \/ NavigateReturns
  \/ LoadStepReturns(Steps)
  \/ ActionReturns([k \in 1..MaxActions |-> ActionResults(k)])
  \/ SleepElapses
  \/ HandlerEnds

vars == <<config, overridesConfig, srv, cli, ofr>>

Init == InitServer
Next == NextServer
Spec == Init /\ [][Next]_vars


(***************************************************************************)
(* SpecActions: the load-step handler with a forwarded token, over step    *)
(* payloads of every stepActions shape and action results that run each    *)
(* enrichment member through all its shapes.                               *)
(***************************************************************************)
FoldDecls ==
  {[type |-> "callCustomProcessor", id |-> "A1"],
   [type |-> "callCustomProcessor"],
   [type |-> "redirect", id |-> "B1"]}

FoldSteps ==
  StepPayloads(FoldDecls, MaxFoldActions, {EmptyObject, [externalId |-> "E9"]})

OnlyMember(key, values) == {[actionResponse |-> [m \in {key} |-> v]] : v \in values}

FoldResults(k) ==
  {EmptyObject, [actionResponse |-> EmptyObject]}
  \cup OnlyMember("availableOffers",
                  {JsNullList, JsObjectNotList, JsList(<<>>), GoodOffers(k)})
  \cup OnlyMember("esignUrl",
                  {JsNull, JsString(""), JsString("   "), JsObject("url"),
                   JsString(" https://sign.example/2 "), GoodEsignUrl(k)})
  \cup OnlyMember("personaResponse",
                  {JsNull, JsArray("list"), JsString("inq"), GoodPersona(k)})
  \cup OnlyMember("stripePaymentDetails",
                  {JsNull, JsArray("list"), JsString("pi"), GoodStripe(k)})
  \cup {[actionResponse |->
           [availableOffers |-> GoodOffers(k), esignUrl |-> GoodEsignUrl(k),
            personaResponse |-> GoodPersona(k),
            stripePaymentDetails |-> GoodStripe(k)]],
        [actionResponse |->
           [availableOffers |-> JsNullList, esignUrl |-> JsString(" "),
            personaResponse |-> JsArray("list"),
            stripePaymentDetails |-> JsNull]]}

InitActions ==
  /\ config = AllKeys
  /\ overridesConfig \in OverrideConfigs
  /\ srv = IdleServer
  /\ cli = NewClient(EmptyStorage)
  /\ ofr = IdleOffers

NextActions ==
  \/ ReceiveRequest({"load-step"}, {"E1"}, {"Bearer fwd-token"})
  \/ LoadStepReturns(FoldSteps)
  \/ ActionReturns([k \in 1..MaxFoldActions |-> FoldResults(k)])
  \/ HandlerEnds

SpecActions == InitActions /\ [][NextActions]_vars


(***************************************************************************)
(* SpecClient: the browser tab.  The backend's answers are inputs; the     *)
(* calls of go and restartJourney come from the buttons and from the       *)
(* widget callbacks, all of which exist only while a step is rendered.     *)
(***************************************************************************)
ClientSteps ==
  {[journeyStep |-> "Details"],
   [journeyStep |-> "Offer-1",
    availableOffers |-> <<[offerId |-> "O1", offerName |-> "Gold",
                           offerCard |-> [cardId |-> "K1", cardTitle |-> "Everyday",
                                          offerCardBenefits |->
                                            <<[benefitName |-> "Cashback"]>>]],
                          [offerId |-> "O2"]>>]}

ErrorPayloads ==
  {[message |-> "Next step failed", details |-> StringDetails("upstream down")],
   [message |-> "Next step failed", details |-> ObjectDetails("Instance not found", "")],
   [message |-> "externalId is required"]}

Failures ==
  {[outcome |-> "http-error", payload |-> p] : p \in ErrorPayloads}
  \cup {[outcome |-> "network-error", payload |-> EmptyObject]}

InitResponses(steps) ==
  {[outcome |-> "ok", payload |-> [externalId |-> "E1", step |-> step]] :
     step \in steps} \cup Failures

LoadStepResponses(steps) ==
  {[outcome |-> "ok", payload |-> step] : step \in steps} \cup Failures

NavigationResponses(steps) ==
  {[outcome |-> "ok", payload |-> [externalId |-> "E2", step |-> step]] :
     step \in steps}
  \cup {[outcome |-> "ok", payload |-> [step |-> [journeyStep |-> "Details"]]],
        [outcome |-> "ok", payload |-> [externalId |-> "E2"]]}
  \cup Failures

StoredSessions ==
  {EmptyStorage,
   [journeyExternalId |-> "E1", selectedOfferId |-> "O1", offerViewStep |-> "Offer-1"]}

NavigationFrames(c) == {f \in c.frames : f.fn \in {"go", "restartJourney"}}

\* history of one call of go or restartJourney
Triggered(before, after) ==
  [after EXCEPT !.triggers = @ + 1,
                !.returnedAtGuard = IF NavigationFrames(before) # {} THEN @ + 1 ELSE @]

InitClient ==
  /\ config = AllKeys
  /\ overridesConfig = NoConfig
  /\ srv = IdleServer
  /\ \E storage \in StoredSessions : cli = NewClient(storage)
  /\ ofr = IdleOffers

\* the effects of the first commit: initJourney and the effects keyed on step
Mount ==
  /\ ~cli.initializedRef
  /\ cli' = summaryEffect(actionStepAutoAdvanceEffect(StepEffects(initJourney(cli))))
  /\ UNCHANGED <<serverVars, ofr>>

InitJourneyAnswered(steps) ==
  /\ \E frame \in cli.frames :
       /\ frame.fn = "initJourney"
       /\ \/ /\ frame.awaiting = "load-step"
             /\ \E response \in LoadStepResponses(steps) :
                  cli' = summaryEffect(actionStepAutoAdvanceEffect(
                           InitLoadAnswered(cli, frame, response)))
          \/ /\ frame.awaiting = "init"
             /\ \E response \in InitResponses(steps) :
                  cli' = summaryEffect(actionStepAutoAdvanceEffect(
                           InitStartAnswered(cli, frame, response)))
  /\ UNCHANGED <<serverVars, ofr>>

TriggerGo ==
  /\ cli.step # Absent
  /\ cli.triggers < MaxTriggers
  /\ \E action \in {"next", "previous"}, options \in GoOptions :
       cli' = Triggered(cli, go(cli, action, options))
  /\ UNCHANGED <<serverVars, ofr>>

TriggerRestart ==
  /\ cli.step # Absent
  /\ cli.triggers < MaxTriggers
  /\ cli' = Triggered(cli, restartJourney(cli))
  /\ UNCHANGED <<serverVars, ofr>>

SelectOffer ==
  /\ \E i \in 1..Len(cli.offerCards) :
       cli' = onSelectOffer(cli, cli.offerCards[i].offerId)
  /\ UNCHANGED <<serverVars, ofr>>

NavigationAnswered(steps) ==
  /\ \E frame \in cli.frames :
       \/ /\ frame.fn = "go"
          /\ frame.awaiting \in {"next", "previous"}
          /\ \E response \in NavigationResponses(steps) :
               cli' = summaryEffect(actionStepAutoAdvanceEffect(
                        GoAnswered(cli, frame, response)))
       \/ /\ frame.fn = "go"
          /\ frame.awaiting = "load-step"
          /\ \E response \in LoadStepResponses(steps) :
               cli' = summaryEffect(actionStepAutoAdvanceEffect(
                        ReloadAnswered(cli, frame, response)))
       \/ /\ frame.fn = "restartJourney"
          /\ \E response \in InitResponses(steps) :
               cli' = summaryEffect(actionStepAutoAdvanceEffect(
                        RestartAnswered(cli, frame, response)))
  /\ UNCHANGED <<serverVars, ofr>>

NextClient ==
  \/ Mount
  \/ InitJourneyAnswered(ClientSteps)
  \/ TriggerGo
  \/ TriggerRestart
  \/ SelectOffer
  \/ NavigationAnswered(ClientSteps)

SpecClient == InitClient /\ [][NextClient]_vars


(***************************************************************************)
(* SpecScreens: the browser tab over steps of every display mode, driven   *)
(* through what the rendered page offers: the buttons of the navigation    *)
(* row (enabled while loading is false), the offer cards, a text input and *)
(* the callbacks of the Persona widget.                                    *)
(***************************************************************************)
BothButtons == [nextButton |-> [show |-> TRUE], previousButton |-> [show |-> TRUE]]

ScreenSteps ==
  {[journeyStep |-> "Details", properties |-> BothButtons,
    fields |-> <<[name |-> "firstName", value |-> "Ann"],
                 [name |-> "ssn", value |-> "123-45-6789",
                  ui |-> [mask |-> JsString("SSN")]]>>],
   [journeyStep |-> "Offer-1", properties |-> BothButtons,
    fields |-> <<[name |-> "selectedOfferIds", value |-> "stale"],
                 [name |-> "firstName", value |-> "Ann"]>>,
    availableOffers |-> <<[offerId |-> "O1", offerName |-> "Gold",
                           productsCategory |-> <<"cards">>,
                           offerProducts |-> <<[productId |-> "P1"]>>,
                           offerCard |-> [cardId |-> "K1", cardTitle |-> "Everyday"]],
                          [offerId |-> "O2"]>>],
   [journeyStep |-> "Offer-2", properties |-> BothButtons,
    availableOffers |-> <<[offerId |-> "O2"]>>],
   [journeyStep |-> "Processing-1", journeyStepType |-> "Action"],
   [journeyStep |-> "Persona-2", properties |-> BothButtons,
    personaResponse |-> [id |-> "inq_1"],
    fields |-> <<[name |-> "firstName", value |-> "Ann"]>>]}

InitScreens ==
  /\ config = AllKeys
  /\ overridesConfig = NoConfig
  /\ srv = IdleServer
  /\ \E storage \in StoredSessions : cli = NewClient(storage)
  /\ ofr = IdleOffers

\* a click on Next (App.jsx 1734-1742)
ClickNext ==
  /\ cli.step # Absent
  /\ ~cli.loading
  /\ ShowNext(cli.step) /\ ~isActionStep(cli.step) /\ ~isESignStep(cli.step)
  /\ cli.triggers < MaxClicks
  /\ cli' = Triggered(cli, go(cli, "next", DefaultOptions))
  /\ UNCHANGED <<serverVars, ofr>>

\* a click on Previous (App.jsx 1724-1732)
ClickPrevious ==
  /\ cli.step # Absent
  /\ ~cli.loading
  /\ ShowPrevious(cli.step)
  /\ cli.triggers < MaxClicks
  /\ cli' = Triggered(cli, go(cli, "previous", DefaultOptions))
  /\ UNCHANGED <<serverVars, ofr>>

\* a click on Start New Journey (App.jsx 1744-1750)
ClickRestart ==
  /\ cli.step # Absent
  /\ ~cli.loading
  /\ cli.triggers < MaxClicks
  /\ cli' = Triggered(cli, restartJourney(cli))
  /\ UNCHANGED <<serverVars, ofr>>

\* the user types another first name
EditField ==
  /\ ~isActionStep(cli.step) /\ ~isPersonaStep(cli.step) /\ Len(cli.offerCards) = 0
  /\ \E i \in 1..Len(Get(cli.step, "fields", <<>>)) :
       /\ cli.step.fields[i].name = "firstName"
       /\ cli' = onFieldChange(cli, cli.step.fields[i], "Bea")
  /\ UNCHANGED <<serverVars, ofr>>

\* the Persona widget reports complete (TRUE), cancel or error (FALSE)
PersonaCallback(eidvPassed) ==
  /\ isPersonaStep(cli.step)
  /\ cli.personaWidget # ""
  /\ cli.triggers < MaxClicks
  /\ cli' = Triggered(cli, completePersonaStep(cli, eidvPassed))
  /\ UNCHANGED <<serverVars, ofr>>

NextScreens ==
  \/ Mount
  \/ InitJourneyAnswered(ScreenSteps)
  \/ ClickNext
  \/ ClickPrevious
  \/ ClickRestart
  \/ SelectOffer
  \/ EditField
  \/ \E eidvPassed \in BOOLEAN : PersonaCallback(eidvPassed)
  \/ NavigationAnswered(ScreenSteps)

SpecScreens == InitScreens /\ [][NextScreens]_vars


(***************************************************************************)
(* SpecSignals: the browser tab over the steps that advance on a signal    *)
(* (action step, eSign step, Persona step), with the signals as inputs:    *)
(* window messages, loads of the signing frame and Persona callbacks.      *)
(***************************************************************************)
SignalSteps ==
  {[journeyStep |-> "Details", properties |-> BothButtons,
    fields |-> <<[name |-> "firstName", value |-> "Ann"]>>],
   [journeyStep |-> "Sign-3", properties |-> BothButtons,
    esignUrl |-> "https://sign.example/2"],
   [journeyStep |-> "Processing-1", journeyStepType |-> "Action"],
   [journeyStep |-> "Persona-2", properties |-> BothButtons,
    personaResponse |-> [id |-> "inq_1"]]}

\* window messages: of the page's origin or of the signing service, with
\* the completion type, another type, or no type
Messages ==
  {[origin |-> origin, data |-> data] :
     origin \in {Origin, "https://sign.example"},
     data \in {[type |-> "ESIGN_COMPLETED", path |-> ESIGN_CALLBACK_PATH],
               [type |-> "RESIZE"], EmptyObject}}

\* where the signing frame is when its load event fires
FrameLocations ==
  {[throws |-> TRUE, href |-> "https://sign.example/2"]}
  \cup {[throws |-> FALSE, href |-> href] :
          href \in {"", "https://app.example/esign/callback?envelope=1",
                    "https://app.example/done?Status=Completed",
                    "https://app.example/help"}}

InitSignals ==
  /\ config = AllKeys
  /\ overridesConfig = NoConfig
  /\ srv = IdleServer
  /\ \E storage \in StoredSessions : cli = NewClient(storage)
  /\ ofr = IdleOffers

\* a message event reaches the window
EsignMessage(event) ==
  /\ cli.step # Absent
  /\ cli.triggers < MaxSignals
  /\ cli' = Triggered(cli, onMessage(cli, event))
  /\ UNCHANGED <<serverVars, ofr>>

\* the signing frame fires its load event
EsignIframeLoad(location) ==
  /\ isESignStep(cli.step)
  /\ cli.triggers < MaxSignals
  /\ cli' = Triggered(cli, onEsignIframeLoad(cli, location))
  /\ UNCHANGED <<serverVars, ofr>>

\* a callback of the Persona widget
PersonaSignal(eidvPassed) ==
  /\ isPersonaStep(cli.step)
  /\ cli.personaWidget # ""
  /\ cli.triggers < MaxSignals
  /\ cli' = Triggered(cli, completePersonaStep(cli, eidvPassed))
  /\ UNCHANGED <<serverVars, ofr>>

\* a click on Previous or on Start New Journey
SignalClick ==
  /\ cli.step # Absent
  /\ ~cli.loading
  /\ cli.triggers < MaxSignals
  /\ \/ ShowPrevious(cli.step) /\ cli' = Triggered(cli, go(cli, "previous", DefaultOptions))
     \/ cli' = Triggered(cli, restartJourney(cli))
  /\ UNCHANGED <<serverVars, ofr>>

NextSignals ==
  \/ Mount
  \/ InitJourneyAnswered(SignalSteps)
  \/ \E event \in Messages : EsignMessage(event)
  \/ \E location \in FrameLocations : EsignIframeLoad(location)
  \/ \E eidvPassed \in BOOLEAN : PersonaSignal(eidvPassed)
  \/ SignalClick
  \/ NavigationAnswered(SignalSteps)

SpecSignals == InitSignals /\ [][NextSignals]_vars

(***************************************************************************)
(* The summary step and the answers of its view-item request              *)
(* (SpecSummary): the journey moves between a form step and two summary   *)
(* steps, of the stored instance or of another one, while the answers of  *)
(* /api/journey/view-item arrive at any time.                             *)
(***************************************************************************)
SummarySteps ==
  {[journeyStep |-> "Details", properties |-> BothButtons],
   [journeyStep |-> "Summary", properties |-> BothButtons],
   [journeyStep |-> "Order Summary", properties |-> BothButtons]}

\* answers of /api/journey/view-item: the selected offer as JSON text, no
\* field at all, or a failure
ViewItemResponses ==
  {[outcome |-> "ok",
    payload |-> [fields |-> <<[name |-> "selectedOfferIds",
                               value |-> JsonStringify(
                                 JsList(<<[kind |-> "object", offerId |-> "O1"]>>))]>>]],
   [outcome |-> "ok", payload |-> [fields |-> <<>>]]}
  \cup Failures

InitSummary ==
  /\ config = AllKeys
  /\ overridesConfig = NoConfig
  /\ srv = IdleServer
  /\ \E storage \in StoredSessions : cli = NewClient(storage)
  /\ ofr = IdleOffers

\* the answer of one awaited view-item request arrives
ViewItemAnswered(fetch, response) ==
  /\ fetch \in cli.summaryFetches
  /\ cli' = loadSummaryAnswered(cli, fetch, response)
  /\ UNCHANGED <<serverVars, ofr>>

NextSummary ==
  \/ Mount
  \/ InitJourneyAnswered(SummarySteps)
  \/ ClickNext
  \/ ClickPrevious
  \/ ClickRestart
  \/ NavigationAnswered(SummarySteps)
  \/ \E fetch \in cli.summaryFetches, response \in ViewItemResponses :
       ViewItemAnswered(fetch, response)

SpecSummary == InitSummary /\ [][NextSummary]_vars


(***************************************************************************)
(* SpecOffers: the offers endpoint with the upstream's answers as inputs.  *)
(***************************************************************************)
PfapiKeys == {pfapiRequired[i] : i \in 1..Len(pfapiRequired)}

\* pfapiTokenEndpoint and offerDetailsEndpoint have defaults, and pfapiBaseUrl
\* falls back to baseUrl: only the keys without a default can be missing
PfapiConfigs ==
  {AllKeys \cup PfapiKeys,
   (AllKeys \cup PfapiKeys) \ {"availableOffersEndpoint"}}

AvailableOffers ==
  {[offerId |-> "O1", offerName |-> "Gold"], [offerId |-> "O2"]}

AvailablePayloads ==
  {JsList(offers) : offers \in SeqsUpTo(AvailableOffers, MaxOffers)}
  \cup {JsObjectNotList}

\* what the upstream may answer for the details of offerId
DetailPayloads(offerId) ==
  {[offerCode |-> "code-" \o offerId,
    offerCards |-> JsList(<<[cardId |-> offerId \o "-card", cardTitle |-> "Everyday",
                             cardDescription |-> "No monthly fee",
                             offerCardBenefits |-> <<[benefitName |-> "Cashback"]>>]>>)],
   [offerCards |-> JsList(<<[cardId |-> offerId \o "-card"]>>)],
   NullDetail}

InitOffers ==
  /\ config \in PfapiConfigs
  /\ overridesConfig = NoConfig
  /\ srv = IdleServer
  /\ cli = NewClient(EmptyStorage)
  /\ ofr = IdleOffers

OffersRequest ==
  /\ ofr.pc = "idle"
  /\ ofr' = OffersHandlerStarts(config)
  /\ UNCHANGED <<serverVars, cli>>

PfapiTokenReturns ==
  /\ ofr.pc = "token"
  /\ \/ \E payload \in TokenPayloads : ofr' = PfapiTokenReturned(ofr, payload)
     \/ \E error \in Errors : ofr' = OffersCatch(ofr, error)
  /\ UNCHANGED <<serverVars, cli>>

AvailableReturns ==
  /\ ofr.pc = "available"
  /\ \/ \E availableOffers \in AvailablePayloads :
          ofr' = AvailableReturned(ofr, availableOffers)
     \/ \E error \in Errors : ofr' = OffersCatch(ofr, error)
  /\ UNCHANGED <<serverVars, cli>>

\* any outstanding detail request may be the next one answered
DetailReturns ==
  /\ ofr.pc = "details"
  /\ \E index \in ofr.pending :
       \/ \E detail \in DetailPayloads(ofr.fetched[index]) :
            ofr' = DetailReturned(ofr, index, detail)
       \/ \E error \in Errors : ofr' = DetailFailed(ofr, index, error)
  /\ UNCHANGED <<serverVars, cli>>

OffersHandlerEnds ==
  /\ ofr.pc = "done"
  /\ ofr' = IdleOffers
  /\ UNCHANGED <<serverVars, cli>>

NextOffers ==
  \/ OffersRequest
  \/ PfapiTokenReturns
  \/ AvailableReturns
  \/ DetailReturns
  \/ OffersHandlerEnds

SpecOffers == InitOffers /\ [][NextOffers]_vars


(***************************************************************************)
(* SpecToken: the journey handlers under every shape of the Authorization  *)
(* header, over one step with an action and one without.                   *)
(***************************************************************************)
Headers ==
  {"", "Bearer fwd-token", "bearer fwd-token", "Bearer   ", "Basic dXNlcjpwdw=="}

TokenSteps ==
  {[journeyStep |-> "Offers-1", externalId |-> "E9",
    stepActions |-> JsList(<<[type |-> "callCustomProcessor", id |-> "A1"]>>)],
   [journeyStep |-> "Details", externalId |-> "E9"]}

InitToken ==
  /\ config = AllKeys
  /\ overridesConfig = NoConfig
  /\ srv = IdleServer
  /\ cli = NewClient(EmptyStorage)
  /\ ofr = IdleOffers

NextToken ==
  \/ ReceiveRequest(Kinds, {"E1"}, Headers)
  \/ TokenReturns
  \/ MetadataReturns
  \/ StartReturns
  \/ NavigateReturns
  \/ LoadStepReturns(TokenSteps)
  \/ ActionReturns([k \in 1..MaxActions |-> ActionResults(k)])
  \/ SleepElapses
  \/ HandlerEnds

SpecToken == InitToken /\ [][NextToken]_vars


(***************************************************************************)
(* SpecFailures: every endpoint of the backend, one request at a time,     *)
(* under complete and incomplete configurations and request bodies.        *)
(***************************************************************************)
EveryKey == AllKeys \cup PfapiKeys \cup {"callViewItemEndpoint"}

FailureConfigs ==
  {EveryKey,
   EveryKey \ {"callViewItemEndpoint"},
   EveryKey \ {"availableOffersEndpoint"},
   EveryKey \ {"baseUrl", "nextEndpoint"}}

ViewItemPayloads == {[journeyStep |-> "Summary", attributes |-> <<>>]}

InitFailures ==
  /\ config \in FailureConfigs
  /\ overridesConfig = NoConfig
  /\ srv = IdleServer
  /\ cli = NewClient(EmptyStorage)
  /\ ofr = IdleOffers

\* POST /api/journey/view-item arrives
ViewItemRequest ==
  /\ srv.pc = "idle"
  /\ \E externalId \in {"", "E1"}, journeyStep \in {"", "Summary"},
        authorization \in {"", "Bearer fwd-token"} :
       srv' = ViewItemStarts(externalId, journeyStep, authorization, config)
  /\ UNCHANGED <<config, overridesConfig, cli, ofr>>

\* the view-item call came back (index.js 830-841)
ViewItemReturns ==
  /\ srv.pc = "viewItem"
  /\ \/ \E viewItem \in ViewItemPayloads : srv' = Respond(srv, 200, viewItem)
     \/ \E error \in Errors : srv' = HandlerCatch(srv, error)
  /\ UNCHANGED <<config, overridesConfig, cli, ofr>>

NextFailures ==
  \/ (ofr.pc = "idle" /\ ReceiveRequest(Kinds, {"", "E1"}, {"", "Bearer fwd-token"}))
  \/ (ofr.pc = "idle" /\ ViewItemRequest)
  \/ TokenReturns
  \/ MetadataReturns
  \/ StartReturns
  \/ NavigateReturns
  \/ ViewItemReturns
  \/ LoadStepReturns(TokenSteps)
  \/ ActionReturns([k \in 1..MaxActions |-> ActionResults(k)])
  \/ SleepElapses
  \/ HandlerEnds
  \/ (srv.pc = "idle" /\ OffersRequest)
  \/ PfapiTokenReturns
  \/ AvailableReturns
  \/ DetailReturns
  \/ OffersHandlerEnds

SpecFailures == InitFailures /\ [][NextFailures]_vars


(***************************************************************************)
(* SpecOverrides: load-step under configuration documents whose entry for  *)
(* the step lists up to MaxOverrideFields override entries, answered with  *)
(* live steps of up to MaxLiveFields fields.                               *)
(***************************************************************************)
LiveFieldPool ==
  {[name |-> "firstName", requiredLevel |-> 2, type |-> "text", value |-> "Ann",
    isReadOnly |-> FALSE],
   [name |-> "phone", requiredLevel |-> 0,
    ui |-> [placeholder |-> JsString("Phone")]],
   [name |-> "email", requiredLevel |-> 1],
   [name |-> "internalCode", requiredLevel |-> 0, isVisible |-> FALSE]}

OverrideEntryPool ==
  {[name |-> "phone", orderIdx |-> JsNum(1)],
   [name |-> "firstName", orderIdx |-> JsNum(1)],
   [name |-> "firstName", orderIndex |-> JsNum(0)],
   [name |-> "phone", orderIdx |-> JsNumericString(2)],
   [name |-> "email", orderIdx |-> JsNum(MAX_SAFE_INTEGER)],
   [name |-> "phone", orderIdx |-> JsNum(MAX_SAFE_INTEGER + 1)],
   [name |-> "firstName"],
   [name |-> "firstName", requiredLevel |-> JsNum(0), value |-> JsString("Bob"),
    isReadOnly |-> [kind |-> "boolean", b |-> TRUE], type |-> JsString("date"),
    placeholder |-> JsString("First name")],
   [name |-> "email", orderIdx |-> JsTextNum],
   [name |-> "phone", orderIdx |-> JsNullNum, orderIndex |-> JsNum(3)],
   [name |-> "firstName", isVisible |-> [kind |-> "boolean", b |-> FALSE]],
   [name |-> "phone", isVisible |-> [kind |-> "string", b |-> FALSE]],
   [name |-> "internalCode", isVisible |-> [kind |-> "boolean", b |-> TRUE]]}

\* live steps: field lists without a repeated name
OverrideSteps ==
  {[journeyStep |-> "Offers-1", journeyName |-> "DAO", externalId |-> "E9",
    stepActions |-> JsList(<<[type |-> "redirect", id |-> "B1"]>>),
    properties |-> [title |-> "Offers"], fields |-> l] :
     l \in {m \in SeqsUpTo(LiveFieldPool, MaxLiveFields) :
              \A i, j \in 1..Len(m) : i # j => m[i] # m[j]}}

FieldOverrideConfigs ==
  {[loaded |-> TRUE, journeyName |-> "dao",
    formDrivenFlows |-> <<[steps |-> <<[journeyStep |-> "Offers-1", fields |-> l]>>]>>] :
     l \in SeqsUpTo(OverrideEntryPool, MaxOverrideFields)}

InitOverrides ==
  /\ config = AllKeys
  /\ overridesConfig \in FieldOverrideConfigs
  /\ srv = IdleServer
  /\ cli = NewClient(EmptyStorage)
  /\ ofr = IdleOffers

NextOverrides ==
  \/ ReceiveRequest({"load-step"}, {"E1"}, {"Bearer fwd-token"})
  \/ LoadStepReturns(OverrideSteps)
  \/ HandlerEnds

SpecOverrides == InitOverrides /\ [][NextOverrides]_vars


(***************************************************************************)
(* SpecMatch: load-step under configuration documents whose journeyName    *)
(* and step entries vary in name, letter case and surrounding whitespace.  *)
(***************************************************************************)
ConfiguredStepNames == {"Offers-1", "offers-1", " Offers-1 ", "Persona-2"}

\* each entry changes the live field list: one hides firstName, the other
\* moves phone to the front
StepEntryPool ==
  {[journeyStep |-> n, fields |-> f] :
     n \in ConfiguredStepNames,
     f \in {<<[name |-> "firstName", isVisible |-> [kind |-> "boolean", b |-> FALSE]]>>,
            <<[name |-> "phone", orderIdx |-> JsNum(0)]>>}}

MatchConfigs ==
  {NoConfig, [loaded |-> TRUE, journeyName |-> "dao"]}
  \cup {j @@ [loaded |-> TRUE, formDrivenFlows |-> <<[steps |-> l]>>] :
          j \in {EmptyObject, [journeyName |-> "dao"], [journeyName |-> "DAO"],
                 [journeyName |-> "lending"]},
          l \in SeqsUpTo(StepEntryPool, MaxStepEntries)}

MatchSteps ==
  {j @@ n @@ [fields |-> LiveFields] :
     j \in {EmptyObject, [journeyName |-> "DAO"]},
     n \in {EmptyObject, [journeyStep |-> "Offers-1"], [journeyStep |-> "OFFERS-1"],
            [journeyStep |-> "Persona-2"]}}

InitMatch ==
  /\ config = AllKeys
  /\ overridesConfig \in MatchConfigs
  /\ srv = IdleServer
  /\ cli = NewClient(EmptyStorage)
  /\ ofr = IdleOffers

NextMatch ==
  \/ ReceiveRequest({"load-step"}, {"E1"}, {"Bearer fwd-token"})
  \/ LoadStepReturns(MatchSteps)
  \/ HandlerEnds

SpecMatch == InitMatch /\ [][NextMatch]_vars








(***************************************************************************)
(* Properties of the step resolution pipeline.                             *)
(***************************************************************************)
Retrying == srv.req.kind \in {"next", "previous"}

\* the step a 200 response carries
ReturnedStep == IF srv.req.kind = "load-step" THEN srv.res.body ELSE srv.res.body.step

Succeeded == srv.pc = "done" /\ srv.res.status = 200
Failed == srv.pc = "done" /\ srv.res.status = 500

\* an upstream 404 whose body is an object with a non-empty message
NotFoundWithMessage(error) ==
  /\ error.hasResponse
  /\ error.status = 404
  /\ error.data.kind = "object"
  /\ error.data.message # ""

\* the positions of stepActions that hold a callCustomProcessor action with an id
QualifyingPositions(step) ==
  IF "stepActions" \notin DOMAIN step \/ step.stepActions.kind # "array" THEN {}
  ELSE {i \in 1..Len(step.stepActions.items) :
          /\ "type" \in DOMAIN step.stepActions.items[i]
          /\ step.stepActions.items[i].type = "callCustomProcessor"
          /\ "id" \in DOMAIN step.stepActions.items[i]
          /\ step.stepActions.items[i].id # ""}

\* the position of the n-th qualifying action
NthQualifying(step, n) ==
  CHOOSE i \in QualifyingPositions(step) :
    Cardinality({j \in QualifyingPositions(step) : j <= i}) = n

HasNoInstanceId(step) ==
  /\ "externalId" \in DOMAIN step => step.externalId = ""
  /\ "instanceId" \in DOMAIN step => step.instanceId = ""

\* C1: in next and previous a further resolve attempt follows only an
\* attempt that failed with an upstream 404 carrying a non-empty message;
\* any other failure ends the request with that single attempt's error and
\* without a further step-load call.
C1_RetryOnlyOnNotFoundWithMessage ==
  Retrying =>
    /\ \A i \in 1..Len(srv.attemptLog) :
         IF NotFoundWithMessage(srv.attemptLog[i])
         THEN i < Len(srv.attemptLog) => srv.callCount["loadStep"] > i
         ELSE /\ i = Len(srv.attemptLog)
              /\ Failed
              /\ srv.res.body.details = ErrorDetails(srv.attemptLog[i])
              /\ srv.callCount["loadStep"] = i
    /\ srv.callCount["loadStep"] <= Len(srv.attemptLog) + 1

\* a 500 answered by the second attempt after the first attempt's 404 with
\* a message was retried
C1_Witness ==
  /\ Retrying
  /\ Failed
  /\ Len(srv.attemptLog) = 2
  /\ NotFoundWithMessage(srv.attemptLog[1])
  /\ srv.attemptLog[2].status = 500
  /\ srv.callCount["loadStep"] = 2

\* C2: within one pass the qualifying stepActions entries are invoked in
\* declaration order, each at most once, each only after the previous call
\* returned; a pass that returns a step has invoked all of them.
C2_ActionsOnceInDeclarationOrder ==
  srv.step # Absent =>
    /\ Len(srv.passCalls) <= Cardinality(QualifyingPositions(srv.step))
    /\ \A n \in 1..Len(srv.passCalls) :
         srv.passCalls[n].actionId =
           srv.step.stepActions.items[NthQualifying(srv.step, n)].id
    /\ Len(srv.passCalls) - Len(srv.responses) \in {0, 1}
    /\ Len(srv.passCalls) - Len(srv.responses) = 1 =>
         /\ srv.pc \in {"action", "sleep", "done"}
         /\ srv.pc = "action" =>
              srv.outstanding.actionId = srv.passCalls[Len(srv.passCalls)].actionId
    /\ Succeeded => Len(srv.responses) = Cardinality(QualifyingPositions(srv.step))

\* a pass over a step declaring A2 and then A1 returned after invoking A2
\* and then A1
C2_Witness ==
  /\ Succeeded
  /\ Len(srv.passCalls) = 2
  /\ srv.passCalls[1].actionId = "A2"
  /\ srv.passCalls[2].actionId = "A1"
  /\ Len(srv.responses) = 2

EnrichmentKeys ==
  {"availableOffers", "esignUrl", "personaResponse", "stripePaymentDetails"}

\* C3: every step a handler returns carries the four enrichment keys, and
\* they are [], null, null, null when the step declares no qualifying action.
C3_EnrichmentAlwaysPresent ==
  Succeeded =>
    /\ EnrichmentKeys \subseteq DOMAIN ReturnedStep
    /\ QualifyingPositions(srv.step) = {} =>
         /\ ReturnedStep.availableOffers = <<>>
         /\ ReturnedStep.esignUrl = JsNull
         /\ ReturnedStep.personaResponse = JsNull
         /\ ReturnedStep.stripePaymentDetails = JsNull

\* next returned a step whose payload has no stepActions member
C3_Witness ==
  /\ Succeeded
  /\ srv.req.kind = "next"
  /\ "stepActions" \notin DOMAIN srv.step
  /\ EnrichmentKeys \subseteq DOMAIN ReturnedStep


\* C6: a step without a qualifying action (stepActions missing, not a list,
\* or without a callCustomProcessor entry holding an id) resolves to the
\* all-empty enrichment with no action call, with or without an instance id
\* in the payload.
C6_NoQualifyingActionNoCall ==
  (srv.step # Absent /\ QualifyingPositions(srv.step) = {}) =>
    /\ Succeeded
    /\ srv.callCount["action"] = 0
    /\ srv.passCalls = <<>>
    /\ [k \in EnrichmentKeys |-> ReturnedStep[k]] = EmptyEnrichment

\* a step that lists only non-qualifying actions and carries no instance id
\* was resolved
C6_Witness ==
  /\ Succeeded
  /\ HasNoInstanceId(srv.step)
  /\ "stepActions" \in DOMAIN srv.step
  /\ Len(srv.step.stepActions.items) = 2
  /\ QualifyingPositions(srv.step) = {}
  /\ srv.callCount["action"] = 0

\* the availableOffers member of an action result, <<>> unless it is an array
OffersOf(result) ==
  IF /\ "actionResponse" \in DOMAIN result
     /\ "availableOffers" \in DOMAIN result.actionResponse
     /\ result.actionResponse.availableOffers.kind = "array"
  THEN result.actionResponse.availableOffers.items
  ELSE <<>>

RECURSIVE Concatenation(_)
Concatenation(results) ==
  IF results = <<>> THEN <<>>
  ELSE OffersOf(Head(results)) \o Concatenation(Tail(results))

\* C7: availableOffers is the concatenation, in call order, of the
\* availableOffers arrays of the action results; N results of two offers
\* each make 2N offers, and a result without such an array adds and removes
\* nothing.
C7_OffersConcatenated ==
  /\ srv.acc.availableOffers = Concatenation(srv.responses)
  /\ Succeeded =>
       /\ ReturnedStep.availableOffers = Concatenation(srv.responses)
       /\ (\A n \in 1..Len(srv.responses) : Len(OffersOf(srv.responses[n])) = 2) =>
            Len(ReturnedStep.availableOffers) = 2 * Len(srv.responses)

\* two actions returned two offers each and the step carries the four, the
\* first action's first
C7_Witness ==
  /\ Succeeded
  /\ Len(srv.responses) = 2
  /\ Len(ReturnedStep.availableOffers) = 4
  /\ ReturnedStep.availableOffers[1] = [offerId |-> 11]
  /\ ReturnedStep.availableOffers[3] = [offerId |-> 21]

BlankStrings == {"", " ", "   "}

\* a member of an action result, JsUndefined when absent
MemberOf(result, key) ==
  IF "actionResponse" \in DOMAIN result /\ key \in DOMAIN result.actionResponse
  THEN result.actionResponse[key]
  ELSE JsUndefined

WellFormed(key, value) ==
  IF key = "esignUrl" THEN value.kind = "string" /\ value.v \notin BlankStrings
  ELSE value.kind = "object"

\* the member of the last result that holds a well-formed one, else null
LastWellFormed(results, key) ==
  LET holders == {n \in 1..Len(results) : WellFormed(key, MemberOf(results[n], key))}
  IN  IF holders = {} THEN JsNull
      ELSE MemberOf(results[CHOOSE n \in holders : \A m \in holders : m <= n], key)

Singletons == {"esignUrl", "personaResponse", "stripePaymentDetails"}

\* C8: esignUrl, personaResponse and stripePaymentDetails each hold the
\* value of the last action result that carried a well-formed one (a
\* non-blank string, a non-array object), null when none did; a later
\* null, absent or malformed value clears nothing.
C8_LastWellFormedWins ==
  /\ \A key \in Singletons : srv.acc[key] = LastWellFormed(srv.responses, key)
  /\ Succeeded =>
       \A key \in Singletons : ReturnedStep[key] = LastWellFormed(srv.responses, key)

\* the first action returned a personaResponse object, the second an array
\* in its place, and the step carries the first action's object
C8_Witness ==
  /\ Succeeded
  /\ Len(srv.responses) = 2
  /\ MemberOf(srv.responses[1], "personaResponse") = GoodPersona(1)
  /\ MemberOf(srv.responses[2], "personaResponse") = JsArray("list")
  /\ ReturnedStep.personaResponse = GoodPersona(1)

\* C9: a step with a qualifying action and neither externalId nor
\* instanceId makes the pass fail with a local error before any action
\* call; the handler answers with the error and no step.
C9_MissingInstanceIdIsLocalError ==
  (/\ srv.step # Absent
   /\ QualifyingPositions(srv.step) # {}
   /\ HasNoInstanceId(srv.step)) =>
    /\ Failed
    /\ srv.passCalls = <<>>
    /\ srv.outstanding = NoCall
    /\ srv.res.body.details.kind = "text"
    /\ srv.res.body.details.text.text =
         "Cannot call custom processors: missing externalId/instanceId in step payload"
    /\ "step" \notin DOMAIN srv.res.body
    /\ Retrying =>
         /\ ~srv.attemptLog[Len(srv.attemptLog)].hasResponse
         /\ srv.callCount["loadStep"] = Len(srv.attemptLog)

\* previous failed on a step declaring A1 without any instance id
C9_Witness ==
  /\ Failed
  /\ srv.req.kind = "previous"
  /\ srv.step # Absent
  /\ QualifyingPositions(srv.step) # {}
  /\ HasNoInstanceId(srv.step)
  /\ srv.callCount["action"] = 0

\* C10: one next or previous request makes at most 4 resolve attempts;
\* after 4 attempts failing with 404 and a message it answers 500 with the
\* upstream body of the last attempt as details.
C10_AtMostFourAttempts ==
  /\ srv.callCount["loadStep"] <= 4
  /\ srv.attempt <= 4
  /\ Len(srv.attemptLog) <= 4
  /\ (/\ Len(srv.attemptLog) = 4
      /\ \A i \in 1..4 : NotFoundWithMessage(srv.attemptLog[i])) =>
       /\ Failed
       /\ srv.res.body.message \in {"Next step failed", "Previous step failed"}
       /\ srv.res.body.details = srv.attemptLog[4].data
       /\ srv.callCount["loadStep"] = 4

\* four attempts failed with 404 and a message, the last one in an action
\* call
C10_Witness ==
  /\ Failed
  /\ Len(srv.attemptLog) = 4
  /\ \A i \in 1..4 : NotFoundWithMessage(srv.attemptLog[i])
  /\ srv.callCount["loadStep"] = 4
  /\ srv.callCount["action"] > 0

\* a call of go or restartJourney is being made in this step
NavigationCalled == cli'.triggers = cli.triggers + 1

\* C4: the client never has more than one navigation request (next,
\* previous, load-step reload or restart) outstanding, and a call of go or
\* restartJourney made while one is outstanding returns at once: it issues no
\* request, leaves no frame waiting, and sets no error or any other state.
C4_OneNavigationInFlight ==
  /\ [](Cardinality(NavigationFrames(cli)) <= 1)
  /\ [][(NavigationCalled /\ NavigationFrames(cli) # {})
          => cli' = [cli EXCEPT !.triggers = @ + 1, !.returnedAtGuard = @ + 1]]_vars

\* a navigation request is outstanding, issued by the one call that passed
\* the guard, and two later calls came back at the guard
C4_Witness ==
  /\ Cardinality(NavigationFrames(cli)) = 1
  /\ cli.returnedAtGuard >= 2
  /\ cli.requests = 1
  /\ cli.error = ""

\* the handler answered 200
OffersAnswered == ofr.pc = "done" /\ ofr.res.status = 200

\* C5: in the answer of POST /api/offers/available the i-th offer carries the
\* offerId and offerName of the i-th available offer, and the offerCode and
\* cards made from the detail that the request issued for that offer's id was
\* answered with, whatever the order in which the detail requests completed.
C5_OffersPairedWithOwnDetail ==
  OffersAnswered =>
    LET offers == ofr.res.body.offers
    IN  /\ Len(offers) = Len(ofr.offersArray)
        /\ \A i \in 1..Len(offers) :
             LET own == MapOffer(ofr.offersArray[i], ofr.delivered[i])
             IN  /\ ofr.fetched[i] = DetailsUrl(ofr.offersArray[i])
                 /\ Get(offers[i], "offerId", "undefined")
                      = Get(ofr.offersArray[i], "offerId", "undefined")
                 /\ Get(offers[i], "offerName", "undefined")
                      = Get(ofr.offersArray[i], "offerName", "undefined")
                 /\ offers[i].offerCode = own.offerCode
                 /\ offers[i].cards = own.cards

\* three offers answered after their details arrived last-first, each with a
\* detail of its own
C5_Witness ==
  /\ OffersAnswered
  /\ ofr.arrival = <<3, 2, 1>>
  /\ \A i, j \in 1..3 : i # j => ofr.delivered[i] # ofr.delivered[j]
  /\ ofr.res.body.offers[1].offerCode = JsString("code-O1")

(***************************************************************************)
(* The handlers' call sequences.                                           *)
(***************************************************************************)
\* the step-load call of an init or load-step request came back with an error
SingleLoadFailed ==
  /\ ~Retrying
  /\ srv.pc = "loadStep"
  /\ srv' # srv
  /\ srv'.step = Absent

\* C11: an init or load-step request issues at most one step load and never
\* enters the retry delay; when that step load fails, 404 with a message
\* included, the very next thing is the 500 response carrying the error, with
\* no further call.
C11_InitAndLoadStepNeverRetry ==
  /\ [](~Retrying => /\ srv.callCount["loadStep"] <= 1
                     /\ srv.pc # "sleep"
                     /\ srv.attemptLog = <<>>)
  /\ [][SingleLoadFailed =>
          /\ srv'.pc = "done"
          /\ srv'.res.status = 500
          /\ srv'.res.body.message \in {"Init journey failed", "Load step failed"}
          /\ \E error \in Errors : srv'.res.body.details = ErrorDetails(error)
          /\ srv'.callCount = srv.callCount]_vars

\* load-step answered 500 with the body of a 404 that carried a message,
\* after its one step load
C11_Witness ==
  /\ srv.req.kind = "load-step"
  /\ Failed
  /\ srv.step = Absent
  /\ srv.callCount["loadStep"] = 1
  /\ srv.res.body.details = ObjectBody("Instance not found")

\* C12: the stages of a request follow one another - init: token, metadata,
\* start, step load; next and previous: token, navigate, step resolve (a
\* stage is issued at most once, the step load or resolve with its action
\* calls and retry attempts counting as the last stage) - one call is
\* outstanding at a time, and a stage is issued only once the stage before
\* it has returned its result, so that no stage follows a failed one.
C12_CallsInSequence ==
  LET n == srv.callCount
  IN  /\ \A op \in {"token", "metadata", "start", "navigate"} : n[op] <= 1
      /\ srv.outstanding.op # "none" => srv.pc = srv.outstanding.op
      /\ srv.pc \in Ops => srv.outstanding.op = srv.pc
      /\ srv.req.kind = "init" => n["navigate"] = 0
      /\ srv.req.kind # "init" => n["metadata"] = 0 /\ n["start"] = 0
      /\ srv.req.kind = "load-step" => n["navigate"] = 0
      /\ n["metadata"] = 1 => srv.token # ""
      /\ n["navigate"] = 1 => srv.token # ""
      /\ n["start"] = 1 => n["metadata"] = 1 /\ srv.metadata # Absent
      /\ (n["loadStep"] >= 1 /\ srv.req.kind = "init") =>
           n["start"] = 1 /\ srv.start # Absent
      /\ (n["loadStep"] >= 1 /\ srv.req.kind = "load-step") => srv.token # ""
      /\ (n["loadStep"] >= 1 /\ Retrying) => n["navigate"] = 1 /\ srv.nav # Absent
      /\ n["action"] >= 1 => n["loadStep"] >= 1
      /\ srv.passCalls # <<>> => srv.step # Absent
      /\ (n["token"] = 1 /\ srv.token = "") =>
           \A op \in Ops \ {"token"} : n[op] = 0

\* an init that acquired its token and went through all four stages
C12_Witness ==
  /\ srv.req.kind = "init"
  /\ Succeeded
  /\ srv.callCount["token"] = 1
  /\ srv.callCount["metadata"] = 1
  /\ srv.callCount["start"] = 1
  /\ srv.callCount["loadStep"] = 1

\* C13: a successful init has started exactly one instance and returns as
\* externalId the externalId of that start response; when the start response
\* carries no externalId the request fails and no step load is issued.
C13_InitReturnsStartedInstance ==
  srv.req.kind = "init" =>
    /\ Succeeded =>
         /\ srv.callCount["start"] = 1
         /\ "externalId" \in DOMAIN srv.start
         /\ srv.start.externalId # ""
         /\ srv.res.body.externalId = srv.start.externalId
         /\ srv.res.body.start = srv.start
    /\ (/\ srv.start # Absent
        /\ ("externalId" \notin DOMAIN srv.start \/ srv.start.externalId = "")) =>
         /\ Failed
         /\ srv.callCount["loadStep"] = 0
         /\ srv.res.body.details = TextBody(Msg("Start Journey did not return externalId"))

\* an init whose request named E1 returned the E2 of its start response
C13_Witness ==
  /\ srv.req.kind = "init"
  /\ srv.req.externalId = "E1"
  /\ Succeeded
  /\ srv.res.body.externalId = "E2"

\* the identifier next and previous resolve the step for
NavigatedId ==
  IF "externalId" \in DOMAIN srv.nav /\ srv.nav.externalId # "" THEN srv.nav.externalId
  ELSE IF "instanceId" \in DOMAIN srv.nav /\ srv.nav.instanceId # ""
  THEN srv.nav.instanceId
  ELSE srv.req.externalId

\* C14: in next and previous every step load after the navigation targets
\* the navigation response's externalId, else its instanceId, else the
\* request's externalId; the 200 response is the navigation response with
\* externalId set to that identifier and step set to the resolved step.
C14_NavigationIdentifier ==
  (Retrying /\ srv.nav # Absent) =>
    /\ srv.pc = "loadStep" => srv.outstanding.target = NavigatedId
    /\ Succeeded =>
         /\ DOMAIN srv.res.body = DOMAIN srv.nav \cup {"externalId", "step"}
         /\ srv.res.body.externalId = NavigatedId
         /\ EnrichmentKeys \subseteq DOMAIN srv.res.body.step
         /\ \A k \in DOMAIN srv.step : srv.res.body.step[k] = srv.step[k]
         /\ \A k \in DOMAIN srv.nav \ {"externalId", "step"} :
              srv.res.body[k] = srv.nav[k]

\* next answered a navigation response that carried externalId E3,
\* instanceId I3 and a step of its own
C14_Witness ==
  /\ srv.req.kind = "next"
  /\ Succeeded
  /\ srv.nav = [externalId |-> "E3", instanceId |-> "I3", nextStep |-> "Offers-1",
                step |-> [journeyStep |-> "Stale"]]
  /\ srv.res.body.externalId = "E3"
  /\ srv.res.body.step # [journeyStep |-> "Stale"]
  /\ srv.res.body.nextStep = "Offers-1"

(***************************************************************************)
(* Configuration and token.                                                *)
(***************************************************************************)
\* what the configuration lacks: required settings, and the credentials when
\* neither pair is complete
MissingSettings ==
  {commonRequired[i] : i \in {j \in 1..Len(commonRequired) : commonRequired[j] \notin config}}
  \cup (IF /\ ~({"userName", "password"} \subseteq config)
           /\ ~({"clientId", "clientSecret"} \subseteq config)
        THEN {"auth credentials"} ELSE {})

ForwardedBearer ==
  IF srv.req.authorization \in {"Bearer fwd-token", "bearer fwd-token"}
  THEN "fwd-token" ELSE ""

EngineOps == Ops \ {"token"}

\* C17: a request with a non-empty bearer token makes no token-exchange call
\* and sends that token with every engine call; a request without one
\* acquires a token before its first engine call and sends the acquired one.
C17_ForwardedTokenBypassesExchange ==
  /\ ForwardedBearer # "" =>
       /\ srv.callCount["token"] = 0
       /\ srv.outstanding.op # "none" => srv.outstanding.token = ForwardedBearer
  /\ (ForwardedBearer = "" /\ \E op \in EngineOps : srv.callCount[op] > 0) =>
       /\ srv.callCount["token"] = 1
       /\ srv.token = "gen-token"
       /\ srv.outstanding.op \in EngineOps => srv.outstanding.token = "gen-token"

\* a next request with a lower-case bearer scheme awaits an action call made
\* with the forwarded token, no token exchanged
C17_Witness ==
  /\ srv.req.kind = "next"
  /\ srv.req.authorization = "bearer fwd-token"
  /\ srv.pc = "action"
  /\ srv.outstanding.token = "fwd-token"
  /\ srv.callCount["navigate"] = 1
  /\ srv.callCount["token"] = 0

(***************************************************************************)
(* Failure responses.                                                      *)
(***************************************************************************)
\* the responses sent and not yet forgotten, of either handler frame
ResponsesSent ==
  (IF srv.pc = "done" THEN {[handler |-> srv.req.kind, res |-> srv.res]} ELSE {})
  \cup (IF ofr.pc = "done" THEN {[handler |-> "offers", res |-> ofr.res]} ELSE {})

FailuresSent == {r \in ResponsesSent : r.res.status # 200}

\* the request in srv lacks a body member its handler requires
OmitsRequiredField ==
  \/ srv.req.externalId = ""
  \/ srv.req.kind = "view-item" /\ srv.req.journeyStep = ""

ConfiguredFields == overridesConfig.formDrivenFlows[1].steps[1].fields
ConfiguredNames == {ConfiguredFields[i].name : i \in 1..Len(ConfiguredFields)}

\* load-step answered with a live step the configured overrides were applied to
OverridesApplied ==
  /\ srv.pc = "done"
  /\ srv.res.status = 200
  /\ ConfiguredFields # <<>>
  /\ srv.loaded.fields # <<>>

LiveList == srv.loaded.fields
MergedList == srv.res.body.fields
Names(fields) == [i \in 1..Len(fields) |-> fields[i].name]
Unconfigured(fields) == SelectSeq(fields, LAMBDA f : f.name \notin ConfiguredNames)

\* C18: the live fields without a matching override entry all appear in the
\* merged list, in the relative order they had in the live step; none is
\* removed.
C18_UnconfiguredFieldsKept ==
  OverridesApplied => Unconfigured(MergedList) = Unconfigured(LiveList)

\* C19: in the merged list every field without an override entry comes after
\* every field with one, whatever orders the entries declare.
C19_UnconfiguredFieldsLast ==
  OverridesApplied =>
    \A i, j \in 1..Len(MergedList) :
      (/\ MergedList[i].name \notin ConfiguredNames
       /\ MergedList[j].name \in ConfiguredNames) => j < i

\* the entry that counts for a name: the first one of the list
EntryFor(name) ==
  ConfiguredFields[CHOOSE i \in 1..Len(ConfiguredFields) :
                     /\ ConfiguredFields[i].name = name
                     /\ \A j \in 1..(i - 1) : ConfiguredFields[j].name # name]

IsNumeric(x) == x.kind \in {"number", "numericString"}

\* the entry declares a number under orderIdx, or under orderIndex and
\* nothing under orderIdx
HasExplicitOrder(entry) ==
  \/ "orderIdx" \in DOMAIN entry /\ IsNumeric(entry.orderIdx)
  \/ /\ "orderIdx" \notin DOMAIN entry
     /\ "orderIndex" \in DOMAIN entry /\ IsNumeric(entry.orderIndex)

ExplicitOrder(entry) ==
  IF "orderIdx" \in DOMAIN entry THEN entry.orderIdx.n ELSE entry.orderIndex.n

\* the fields the ordering rule speaks of, and the order value of each
Ranked(field) ==
  field.name \in ConfiguredNames => HasExplicitOrder(EntryFor(field.name))

Rank(field) ==
  IF field.name \in ConfiguredNames THEN ExplicitOrder(EntryFor(field.name))
  ELSE MAX_SAFE_INTEGER

LiveIndex(field) == CHOOSE i \in 1..Len(LiveList) : LiveList[i].name = field.name

HasNoOrder(entry) ==
  \A k \in {"orderIdx", "orderIndex"} :
    k \in DOMAIN entry => entry[k].kind \in {"undefined", "string"}

\* 0-based position of the entry that counts for the name
ConfigIndex(name) ==
  (CHOOSE i \in 1..Len(ConfiguredFields) :
     /\ ConfiguredFields[i].name = name
     /\ \A j \in 1..(i - 1) : ConfiguredFields[j].name # name) - 1

Unordered(field) ==
  field.name \in ConfiguredNames /\ HasNoOrder(EntryFor(field.name))

\* the merged list stands in the order of the sort when each overridden field
\* without a numeric order takes fallback[its name] as its order value
SortedWithFallback(fallback) ==
  \A i, j \in 1..Len(MergedList) :
    LET a == MergedList[i]
        b == MergedList[j]
        rank(f) == IF Unordered(f) THEN fallback[f.name] ELSE Rank(f)
        aHas == a.name \in ConfiguredNames
        bHas == b.name \in ConfiguredNames
    IN  (/\ i < j
         /\ Unordered(a) \/ Unordered(b)
         /\ Unordered(a) \/ Ranked(a)
         /\ Unordered(b) \/ Ranked(b)) =>
          \/ rank(a) < rank(b)
          \/ /\ rank(a) = rank(b)
             /\ \/ aHas /\ ~bHas
                \/ aHas = bHas /\ LiveIndex(a) < LiveIndex(b)

LivePosition ==
  [n \in ConfiguredNames \cap {LiveList[i].name : i \in 1..Len(LiveList)} |->
     (CHOOSE i \in 1..Len(LiveList) : LiveList[i].name = n) - 1]
ConfigPosition == [n \in ConfiguredNames |-> ConfigIndex(n)]

SetsVisibility(field) ==
  /\ field.name \in ConfiguredNames
  /\ "isVisible" \in DOMAIN EntryFor(field.name)
  /\ EntryFor(field.name).isVisible.kind = "boolean"

\* the merged isVisible of a live field is false
MergedHidden(field) ==
  IF SetsVisibility(field) THEN EntryFor(field.name).isVisible.b = FALSE
  ELSE "isVisible" \in DOMAIN field /\ field.isVisible = FALSE

NameVariants ==
  {{"Offers-1", "offers-1", "OFFERS-1", " Offers-1 "}, {"Persona-2"},
   {"DAO", "dao"}, {"lending"}}

SameName(a, b) == \E c \in NameVariants : a \in c /\ b \in c

\* load-step answered with the step
StepAnswered == srv.pc = "done" /\ srv.res.status = 200

StepEntries ==
  IF overridesConfig.loaded /\ "formDrivenFlows" \in DOMAIN overridesConfig
  THEN overridesConfig.formDrivenFlows[1].steps
  ELSE <<>>

\* the journeyName of the configuration and of the step are both given and
\* are different names
OtherJourney ==
  /\ overridesConfig.loaded
  /\ "journeyName" \in DOMAIN overridesConfig
  /\ "journeyName" \in DOMAIN srv.loaded
  /\ ~SameName(overridesConfig.journeyName, srv.loaded.journeyName)

\* no entry of the configuration names the journeyStep of the step, not even
\* in another letter case or with surrounding whitespace
NoEntryForStep ==
  \/ "journeyStep" \notin DOMAIN srv.loaded
  \/ \A i \in 1..Len(StepEntries) :
       ~SameName(StepEntries[i].journeyStep, srv.loaded.journeyStep)

\* no entry of the configuration has exactly the journeyStep of the step
NoExactEntryForStep ==
  \/ "journeyStep" \notin DOMAIN srv.loaded
  \/ \A i \in 1..Len(StepEntries) :
       StepEntries[i].journeyStep # srv.loaded.journeyStep

StepAsLoaded ==
  /\ srv.step = srv.loaded
  /\ srv.res.body.fields = srv.loaded.fields
  /\ \A k \in DOMAIN srv.loaded : srv.res.body[k] = srv.loaded[k]

\* C23: applyStepOverrides returns the step unchanged (same fields, same
\* order, nothing dropped) whenever the configuration is absent, its
\* journeyName is not that of the step, or no configured entry matches the
\* journeyStep of the step (exactly, as the configuration is documented to
\* match).
C23_NoMatchLeavesStep ==
  (StepAnswered /\ (~overridesConfig.loaded \/ OtherJourney \/ NoExactEntryForStep))
    => StepAsLoaded

\* the same with entries that differ from the step's name in letter case or
\* whitespace counted as entries for the step
NoVariantLeavesStep ==
  (StepAnswered /\ (~overridesConfig.loaded \/ OtherJourney \/ NoEntryForStep))
    => StepAsLoaded

\* the configured overrides changed the field list of the step
FieldsChanged == StepAnswered /\ srv.res.body.fields # srv.loaded.fields

\* C24: a step entry is applied to a step only when the journeyStep of the
\* entry is exactly equal to that of the step; a name differing in letter case
\* or surrounding whitespace does not match.
C24_ExactStepNameOnly ==
  FieldsChanged =>
    /\ "journeyStep" \in DOMAIN srv.loaded
    /\ \E i \in 1..Len(StepEntries) : StepEntries[i].journeyStep = srv.loaded.journeyStep

(***************************************************************************)
(* What the overrides leave alone.                                         *)
(***************************************************************************)
OverridableKeys == {"isVisible", "ui"}

\* the live field a merged field was made from
LiveOf(field) == LiveList[LiveIndex(field)]

\* C25: applying step overrides changes only the order of the fields, their
\* isVisible and their ui: every field of the merged list has the attributes
\* of the live field, with the values of the remote payload, whatever the
\* configuration contains; every attribute of the step but fields is unchanged.
C25_OnlyOrderVisibilityUi ==
  OverridesApplied =>
    /\ \A j \in 1..Len(MergedList) :
         LET merged == MergedList[j]
             live == LiveOf(merged)
         IN  /\ DOMAIN merged \ OverridableKeys = DOMAIN live \ OverridableKeys
             /\ \A k \in DOMAIN live \ OverridableKeys : merged[k] = live[k]
    /\ DOMAIN srv.step = DOMAIN srv.loaded
    /\ \A k \in DOMAIN srv.loaded \ {"fields"} :
         srv.step[k] = srv.loaded[k] /\ srv.res.body[k] = srv.loaded[k]

\* the entry for firstName names requiredLevel, value, isReadOnly, type and a
\* placeholder: the merged field took the placeholder alone
C25_Witness ==
  /\ OverridesApplied
  /\ Len(ConfiguredFields) = 1
  /\ "requiredLevel" \in DOMAIN ConfiguredFields[1]
  /\ Len(MergedList) = 2
  /\ MergedList[1] = [name |-> "firstName", requiredLevel |-> 2, type |-> "text",
                      value |-> "Ann", isReadOnly |-> FALSE,
                      ui |-> [placeholder |-> JsString("First name")]]
  /\ srv.res.body.externalId = "E9"
  /\ srv.res.body.properties = [title |-> "Offers"]




(***************************************************************************)
(* The browser tab over steps of every display mode (SpecScreens).         *)
(***************************************************************************)
\* what the page displays, as far as the auto-advance of action steps goes
ActionShown(c) ==
  c.step # Absent /\ Get(c.step, "journeyStepType", "") \in {"action", "Action"}
Shown(c) ==
  <<ActionShown(c), IF c.step = Absent THEN "" ELSE Get(c.step, "journeyStep", ""),
    c.externalId>>
PairShown(c) == Shown(c)[2] \o "|" \o Shown(c)[3]
EmptyNexts(c) ==
  {f \in c.frames : f.fn = "go" /\ f.awaiting = "next" /\ f.values = <<>>
                     /\ f.externalId = c.externalId}
Reloading(c) == \E f \in c.frames : f.fn = "go" /\ f.awaiting = "load-step"

C27_NextWithoutOfferRejected ==
  [][(ClickNext /\ Len(cli.offerCards) > 0 /\ cli.selectedOfferId = "") =>
       /\ cli'.frames = cli.frames
       /\ cli'.requests = cli.requests
       /\ cli'.error = "Please select an offer before continuing."
       /\ ~cli'.actionInFlightRef
       /\ ~cli'.loading
       /\ cli'.step = cli.step /\ cli'.externalId = cli.externalId]_vars

\* after the rejected click the page is free again: a click on Previous on
\* the step whose Next was rejected is awaited
C27_Witness ==
  /\ Len(cli.offerCards) > 0
  /\ cli.selectedOfferId = ""
  /\ cli.triggers = 2
  /\ cli.returnedAtGuard = 0
  /\ cli.requests = 1
  /\ \E f \in cli.frames : f.fn = "go" /\ f.awaiting = "previous"

\* the ids of the offers the page lists
ListedOfferIds(c) == {c.offerCards[i].offerId : i \in 1..Len(c.offerCards)}
OffersListedBy(step) ==
  IF step = Absent THEN <<>> ELSE Get(step, "availableOffers", <<>>)

\* C28: selecting an offer stores its id in the session; once the page's
\* effects ran, and after every refresh of the listed offers, the stored id
\* is absent or the id of a listed offer and the in-memory selection equals
\* it: a stored id the refreshed list does not contain is removed and the
\* in-memory selection is reset to empty, one it contains is kept.
C28_StoredOfferIsListed ==
  [][/\ cli'.initializedRef =>
          /\ cli'.storage.selectedOfferId \in ListedOfferIds(cli') \cup {""}
          /\ cli'.selectedOfferId = cli'.storage.selectedOfferId
     /\ SelectOffer =>
          /\ cli'.storage.selectedOfferId \in ListedOfferIds(cli)
          /\ cli'.storage.selectedOfferId = cli'.picked
     /\ (cli.initializedRef /\ OffersListedBy(cli'.step) # OffersListedBy(cli.step)) =>
          /\ ListedOfferIds(cli') =
               {OffersListedBy(cli'.step)[i].offerId : i \in 1..Len(OffersListedBy(cli'.step))}
          /\ cli'.storage.selectedOfferId =
               IF cli.storage.selectedOfferId \in ListedOfferIds(cli')
               THEN cli.storage.selectedOfferId ELSE ""]_vars

\* the offer selected on Offer-1 is not among the offers of Offer-2, and
\* the refresh removed it
C28_Witness ==
  /\ cli.picked = "O1"
  /\ Get(cli.step, "journeyStep", "") = "Offer-2"
  /\ ListedOfferIds(cli) = {"O2"}
  /\ cli.storage.selectedOfferId = ""
  /\ cli.selectedOfferId = ""

\* what selectedOfferIds tells about an offer of the step
Describes(offer) ==
  [offerId |-> offer.offerId,
   productsCategory |-> IF "productsCategory" \in DOMAIN offer
                        THEN offer.productsCategory ELSE <<>>,
   offerName |-> IF "offerName" \in DOMAIN offer THEN offer.offerName ELSE "",
   offerProducts |-> IF "offerProducts" \in DOMAIN offer
                     THEN offer.offerProducts ELSE <<>>]
NextsIssued == {f \in cli'.frames \ cli.frames : f.fn = "go" /\ f.awaiting = "next"}
OfferEntries(values) ==
  {i \in 1..Len(values) : values[i].attribute = "selectedOfferIds"}

\* C29: a click on Next on a step that lists offers, one of them selected,
\* posts values with exactly one entry selectedOfferIds; its value is the
\* JSON text of a one-element list that describes the selected offer by
\* offerId, productsCategory, offerName and offerProducts; the entry that
\* the step's own field selectedOfferIds gave is replaced, and the values
\* of the step's other fields are posted along with it.
C29_OneSelectedOfferEntry ==
  [][(ClickNext /\ Len(cli.offerCards) > 0 /\ cli.selectedOfferId # "") =>
       /\ Cardinality(NextsIssued) = 1
       /\ \A f \in NextsIssued :
            /\ Cardinality(OfferEntries(f.values)) = 1
            /\ \A i \in OfferEntries(f.values) :
                 /\ f.values[i].value.kind = "json"
                 /\ Len(f.values[i].value.of) = 1
                 /\ \E n \in 1..Len(cli.step.availableOffers) :
                      /\ cli.step.availableOffers[n].offerId = cli.selectedOfferId
                      /\ f.values[i].value.of[1] =
                           Describes(cli.step.availableOffers[n])
            /\ \A n \in 1..Len(Get(cli.step, "fields", <<>>)) :
                 cli.step.fields[n].name # "selectedOfferIds" =>
                   \E i \in 1..Len(f.values) :
                     f.values[i].attribute = cli.step.fields[n].name]_vars

\* Next of Offer-1 with the offer Gold selected is awaited: the field
\* selectedOfferIds of the step, of value "stale", gave way to the offer
C29_Witness ==
  \E f \in cli.frames :
    /\ f.fn = "go" /\ f.awaiting = "next"
    /\ Get(cli.step, "journeyStep", "") = "Offer-1"
    /\ cli.selectedOfferId = "O1"
    /\ \E n \in 1..Len(cli.step.fields) :
         cli.step.fields[n].name = "selectedOfferIds"
    /\ Len(f.values) = 2
    /\ f.values[1].attribute = "firstName"
    /\ f.values[2] =
         [attribute |-> "selectedOfferIds",
          value |-> [kind |-> "json",
                     of |-> <<[offerId |-> "O1", productsCategory |-> <<"cards">>,
                               offerName |-> "Gold",
                               offerProducts |-> <<[productId |-> "P1"]>>]>>]]

\* the values that tell the outcome of the identity verification
EidvPassed(passed) ==
  <<[attribute |-> "eidvPassed", value |-> [kind |-> "boolean", b |-> passed]]>>
DecisionSent(passed) ==
  /\ Cardinality(NextsIssued) = 1
  /\ \A f \in NextsIssued : f.values = EidvPassed(passed)
  /\ cli'.requests = cli.requests + 1

\* C30: on a Persona step a complete callback makes the client call next
\* with values exactly [{attribute: eidvPassed, value: true}], a cancel or
\* error callback with values exactly [{attribute: eidvPassed, value:
\* false}]; no value of a form field is sent with either.
C30_CallbackSendsDecision ==
  [][\A passed \in BOOLEAN : PersonaCallback(passed) => DecisionSent(passed)]_vars

\* the callbacks that are answered with a request: the first one of its
\* outcome for the widget of the displayed step, with no navigation awaited;
\* every other callback issues nothing
FirstDecisionSent ==
  [][\A passed \in BOOLEAN :
       PersonaCallback(passed) =>
         IF /\ ~cli.actionInFlightRef
            /\ cli.personaAutoAdvanceRef #
                 cli.personaWidget \o "|" \o (IF passed THEN "pass" ELSE "fail")
         THEN DecisionSent(passed)
         ELSE cli'.frames = cli.frames /\ cli'.requests = cli.requests]_vars


(***************************************************************************)
(* The browser tab and the signals that advance it (SpecSignals).          *)
(***************************************************************************)
SignShown(c) ==
  c.step # Absent /\ Get(c.step, "esignUrl", "") \notin {"", " ", "   "}
CompletionMessage(event) ==
  event.origin = "https://app.example" /\ "type" \in DOMAIN event.data
  /\ event.data.type = "ESIGN_COMPLETED"
CompletedLocation(location) ==
  /\ ~location.throws
  /\ location.href \in {"https://app.example/esign/callback?envelope=1",
                        "https://app.example/done?Status=Completed"}
EmptyNextIssued ==
  /\ Cardinality(NextsIssued) = 1
  /\ \A f \in NextsIssued : f.values = <<>> /\ f.externalId = cli.externalId
  /\ cli'.requests = cli.requests + 1
NothingIssued == cli'.frames = cli.frames /\ cli'.requests = cli.requests
Untouched == cli' = [cli EXCEPT !.triggers = @ + 1,
                                !.returnedAtGuard = cli'.returnedAtGuard]
NoRepeat(log) == \A i, j \in 1..Len(log) : log[i] = log[j] => i = j

\* C31: on an eSign step every completion signal (a same-origin
\* ESIGN_COMPLETED message, or the signing frame loading a same-origin
\* completed-signing address) makes the client call next with empty
\* values unless a next was already issued for the pair of step name and
\* instance id; at most one is issued per pair; any other message changes
\* nothing.
C31_CompletionAdvancesOnce ==
  [][/\ \A event \in Messages :
          EsignMessage(event) =>
            IF SignShown(cli) /\ CompletionMessage(event)
            THEN EmptyNextIssued \/
                 (NothingIssued /\ \E i \in 1..Len(cli.esignLog) :
                                     cli.esignLog[i] = PairShown(cli))
            ELSE Untouched
     /\ \A location \in FrameLocations :
          EsignIframeLoad(location) =>
            IF CompletedLocation(location)
            THEN EmptyNextIssued \/
                 (NothingIssued /\ \E i \in 1..Len(cli.esignLog) :
                                     cli.esignLog[i] = PairShown(cli))
            ELSE Untouched
     /\ NoRepeat(cli'.esignLog)]_vars

\* what the listeners do: a completion signal on an eSign step records the
\* displayed pair in esignAutoAdvanceRef, and it issues one next with empty
\* values exactly when the pair was not the recorded one and no navigation
\* is in flight; messages of another origin or type, and loads of any other
\* address, change nothing
CompletionAdvancesUnlessRecorded ==
  [][/\ \A event \in Messages :
          EsignMessage(event) =>
            IF SignShown(cli) /\ CompletionMessage(event)
            THEN /\ cli'.esignAutoAdvanceRef = PairShown(cli)
                 /\ IF cli.esignAutoAdvanceRef # PairShown(cli) /\ ~cli.actionInFlightRef
                    THEN EmptyNextIssued ELSE NothingIssued
            ELSE Untouched
     /\ \A location \in FrameLocations :
          EsignIframeLoad(location) =>
            IF CompletedLocation(location)
            THEN /\ cli'.esignAutoAdvanceRef = PairShown(cli)
                 /\ IF cli.esignAutoAdvanceRef # PairShown(cli) /\ ~cli.actionInFlightRef
                    THEN EmptyNextIssued ELSE NothingIssued
            ELSE Untouched]_vars


\* the key of a Persona decision
DecisionKey(c, passed) ==
  c.personaWidget \o "|" \o (IF passed THEN "pass" ELSE "fail")
Logged(log, key) == \E i \in 1..Len(log) : log[i] = key
AnswerArrived == \E f \in cli.frames : f \notin cli'.frames

C36_GuardOnlyWhileNavigating ==
  /\ cli.actionInFlightRef <=> NavigationFrames(cli) # {}
  /\ Cardinality(NavigationFrames(cli)) <= 1
  /\ cli.actionInFlightRef => cli.loading

\* a click was answered with a network failure: the guard is clear and the
\* step is still displayed
C36_Witness ==
  /\ cli.step # Absent
  /\ cli.triggers > 0
  /\ cli.requests > 0
  /\ cli.error = "Failed to fetch"
  /\ cli.frames = {}
  /\ ~cli.actionInFlightRef
  /\ ~cli.loading


\* the awaited next or previous request f has failed: its answer left an
\* error message
RequestFailed(f) ==
  /\ f.fn = "go"
  /\ f.awaiting \in {"next", "previous"}
  /\ f \notin cli'.frames
  /\ cli'.error # ""

\* C37: a next or previous request that fails, with a non-2xx answer or at
\* the network level, leaves the active externalId, the externalId of the
\* session storage and the displayed step as they were; the error message,
\* the loading flag and the in-flight guard are all that changes.
C37_FailureLeavesJourney ==
  [][\A f \in cli.frames :
       RequestFailed(f) =>
         /\ cli'.externalId = cli.externalId
         /\ cli'.storage = cli.storage
         /\ cli'.step = cli.step
         /\ cli' = [cli EXCEPT !.frames = @ \ {f},
                               !.error = cli'.error,
                               !.loading = FALSE,
                               !.actionInFlightRef = FALSE]
         /\ cli'.frames = {}]_vars

\* Next on the offer step of E1, with an offer selected, was answered with a
\* non-2xx response
C37_Witness ==
  /\ cli.step # Absent
  /\ Len(cli.offerCards) > 0
  /\ cli.externalId = "E1"
  /\ cli.storage.journeyExternalId = "E1"
  /\ cli.selectedOfferId # ""
  /\ cli.error = "externalId is required"
  /\ cli.triggers > 0
  /\ cli.frames = {}
  /\ ~cli.actionInFlightRef
  /\ ~cli.loading


\* no request of go or restartJourney is awaited and the client holds an
\* instance id
HoldsInstance == NavigationFrames(cli) = {} /\ cli.externalId # ""

\* C38: whenever no navigation is outstanding and the client holds a
\* non-empty active externalId, the journeyExternalId of the session storage
\* equals it, after any sequence of app load, next, previous and restart,
\* the failed ones included.
C38_StoredMirrorsActive ==
  HoldsInstance => cli.storage.journeyExternalId = cli.externalId

\* C38 as the client behaves: under the same condition the stored id equals
\* the active one, or nothing is stored because a restart has failed:
\* startNewJourney removes the stored id before its request, and the failure
\* leaves the active id and the step in place, with an error message.
C38_StoredMirrorsUnlessRestartFailed ==
  HoldsInstance =>
    \/ cli.storage.journeyExternalId = cli.externalId
    \/ /\ cli.storage.journeyExternalId = ""
       /\ Logged(cli.initLog, "restartJourney")
       /\ cli.step # Absent

\* Start New Journey on a step of E1 has failed: E1 is still active and
\* displayed, and nothing is stored
C38_Witness ==
  /\ HoldsInstance
  /\ cli.frames = {}
  /\ cli.externalId = "E1"
  /\ cli.step # Absent
  /\ cli.storage.journeyExternalId = ""
  /\ cli.error # ""
  /\ Logged(cli.initLog, "restartJourney")


(***************************************************************************)
(* The summary step (SpecSummary).                                         *)
(***************************************************************************)

\* the client is no longer where the request was sent from: no summary step
\* is displayed, or the active instance is another one
LeftSummary(fetch) ==
  ~isSummaryStep(cli.step) \/ cli.externalId # fetch.externalId

\* C39: the answer of a view-item request of the summary step that arrives
\* after the client has left the summary step, or has switched to another
\* instance id, is discarded: the summary offers, the summary error and the
\* summary loading flag stay as they are, whether the answer is a payload or
\* a failure.
C39_LateSummaryAnswerDiscarded ==
  [][\A fetch \in cli.summaryFetches, response \in ViewItemResponses :
       (ViewItemAnswered(fetch, response) /\ LeftSummary(fetch)) =>
         /\ cli'.summarySelectedOffers = cli.summarySelectedOffers
         /\ cli'.summaryError = cli.summaryError
         /\ cli'.summaryLoading = cli.summaryLoading
         /\ cli'.step = cli.step
         /\ cli'.externalId = cli.externalId]_vars

\* the answer for the summary of E1 arrived when the summary step of E2 was
\* displayed and its own request awaited: it was discarded
C39_Witness ==
  /\ isSummaryStep(cli.step)
  /\ cli.externalId = "E2"
  /\ cli.summaryLog = <<"discarded">>
  /\ cli.summaryLoading
  /\ cli.summarySelectedOffers = <<>>
  /\ cli.summaryFetches = {[externalId |-> "E2", journeyStep |-> "Offer-1",
                            cancelled |-> FALSE]}


(***************************************************************************)
(* The failure of a detail request of the offers handler (SpecOffers).     *)
(***************************************************************************)

\* the detail request of position index ends without a detail delivered
DetailFetchFails(index) ==
  /\ ofr.pc = "details"
  /\ index \in ofr.pending
  /\ index \notin ofr'.pending
  /\ ofr'.delivered[index] = NotSettled

\* C40: if any one detail request of POST /api/offers/available fails, the
\* handler answers 500 with the error object {message, details} and sends
\* no offers list, whatever details the other requests have delivered; an
\* answer with an offers list has a delivered detail for every offer.
C40_DetailFailureAnswers500 ==
  [][/\ \A index \in 1..MaxOffers + 1 :
          DetailFetchFails(index) =>
            /\ ofr'.pc = "done"
            /\ ofr'.res.status = 500
            /\ DOMAIN ofr'.res.body = {"message", "details"}
            /\ ofr'.res.body.message = "Load available offers failed"
     /\ (ofr'.pc = "done" /\ ofr'.res.status = 200) =>
          \A i \in 1..Len(ofr'.offersArray) : ofr'.delivered[i] # NotSettled]_vars

\* two of three detail requests were answered, the third failed: the
\* response is the 500 error object
C40_Witness ==
  /\ ofr.pc = "done"
  /\ Len(ofr.offersArray) = 3
  /\ Len(ofr.arrival) = 3
  /\ Cardinality({i \in 1..3 : ofr.delivered[i] # NotSettled}) = 2
  /\ ofr.res.status = 500
  /\ "offers" \notin DOMAIN ofr.res.body


(***************************************************************************)
(* The app load (SpecClient).                                              *)
(***************************************************************************)
\* the calls of POST /api/journey/init made by the load of the app
LoadInits == {i \in 1..Len(cli.initLog) : cli.initLog[i] = "initJourney"}
LoadFinished ==
  cli.initializedRef /\ \A f \in cli.frames : f.fn # "initJourney"

\* C32: the load of the app initialises the journey by calling
\* POST /api/journey/init exactly once: never twice, and once by the time
\* the load has finished.
C32_InitOncePerLoad ==
  /\ Cardinality(LoadInits) <= 1
  /\ LoadFinished => Cardinality(LoadInits) = 1

\* what the load does: it calls init at once when the session holds no
\* instance id, and otherwise loads the step of the stored id and calls
\* init only when that is answered with a non-2xx status; never twice
InitUnlessResumed ==
  [][/\ Cardinality(LoadInits') <= 1
     /\ Mount => (Cardinality(LoadInits') = 1 <=> cli.storage.journeyExternalId = "")
     /\ (LoadFinished' /\ Cardinality(LoadInits') = 0) =>
          \/ cli'.externalId = cli'.storage.journeyExternalId /\ cli'.externalId # ""
          \/ cli'.error = "Failed to fetch"
          \/ cli.initializedRef /\ Cardinality(LoadInits) = 0]_vars


(***************************************************************************)
(* The retries of the post-navigation resolution (Spec).                   *)
(***************************************************************************)
AttemptFailed == Len(srv'.attemptLog) = Len(srv.attemptLog) + 1
LastFailure(s) == s.attemptLog[Len(s.attemptLog)]
ActionInvoked == srv'.callCount["action"] = srv.callCount["action"] + 1

\* C33: in next and previous a 404 with a message thrown by any call of the
\* pass, the step load or an action invocation, is followed by a retry
\* while attempts are left; a retry restarts the whole pass: the step is
\* loaded again and the qualifying actions are invoked again from the
\* first in declaration order.  Every invocation is the next one in
\* declaration order of the pass of one of the attempts 1 to 4, so one
\* request invokes the same declared action once per attempt, up to 4 times.
C33_RetryRestartsPass ==
  [][/\ (/\ Retrying /\ srv.pc \in {"loadStep", "action"} /\ AttemptFailed
          /\ NotFoundWithMessage(LastFailure(srv')) /\ Len(srv'.attemptLog) < 4) =>
            srv'.pc = "sleep"
     /\ srv.pc = "sleep" =>
          /\ srv'.pc = "loadStep"
          /\ srv'.attempt = srv.attempt + 1
          /\ srv'.callCount["loadStep"] = srv.callCount["loadStep"] + 1
          /\ srv'.passCalls = <<>> /\ srv'.responses = <<>>
          /\ srv'.acc = EmptyEnrichment
     /\ (srv.pc = "loadStep" /\ srv'.pc = "action") =>
          /\ ActionInvoked
          /\ Len(srv'.passCalls) = 1
     /\ (Retrying /\ ActionInvoked) =>
          /\ srv'.pc = "action"
          /\ srv'.attempt \in 1..4
          /\ srv'.attempt = Len(srv'.attemptLog) + 1
          /\ Len(srv'.passCalls) = Len(srv.passCalls) + 1
          /\ srv'.outstanding.actionId =
               srv'.step.stepActions.items[
                 NthQualifying(srv'.step, Len(srv'.passCalls))].id]_vars

\* the fourth attempt of a request invokes its first action after each of
\* the three attempts before it, ended by a 404 with a message, had invoked
\* as many actions as a step declares
C33_Witness ==
  /\ Retrying
  /\ srv.pc = "action"
  /\ srv.attempt = 4
  /\ Len(srv.passCalls) = 1
  /\ srv.outstanding.actionId = "A1"
  /\ srv.callCount["action"] = 3 * MaxActions + 1
  /\ \A i \in 1..3 : NotFoundWithMessage(srv.attemptLog[i])
  /\ srv.callCount["loadStep"] = 4

====
